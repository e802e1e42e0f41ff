CONSTANTS
    Configs <- Direct
    Systems = {26, 27}
    MaxResets = 0
SPECIFICATION Spec
INVARIANT VerifiedIsGated
