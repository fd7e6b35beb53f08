\* Specifications and contents nginx accepts or refuses, every failure of the
\* template, the file, the command and the pipe.
SPECIFICATION NginxSpec
INVARIANT NginxTypeOK
PROPERTIES
    VerdictIsNginxs
    RefusedStaysOut
    OnlySilencePasses
    Returns
