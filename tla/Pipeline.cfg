CONSTANTS
    plain1 = plain1
    plain2 = plain2
    odd = odd
    Messages = {plain1, plain2, odd}
    Unencodable = {odd}
    Lines <- MCLines
    PipeCap = 1
    Deaf = FALSE
    NoMessage = none
SPECIFICATION FairSpec
INVARIANT Delivers
PROPERTIES KeepsCustody Quiesces
