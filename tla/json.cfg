SPECIFICATION Spec
CONSTANTS
    JSON_BUFSIZ = 4
    JSON_GROWSTEP = 14
    JSON_INDENT_SPACES = 1
    Names <- OneName
    Strings <- FewStrings
    Numbers <- FewNumbers
    Refused <- Denormals
    MaxTokens = 4
    Memory = 2
INVARIANTS
    ReadsWhenWhole
    TextFits
    PrettyIsTheSame
