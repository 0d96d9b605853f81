SPECIFICATION Spec
CONSTANTS
    Fields <- MCFields
    Numbers <- MCNumbers
    Atoi <- MCAtoi
    Kept <- MCKept
    Fragments <- MCFragments
    Values <- MCValues
    Defaults <- MCDefaults
    Files <- MCFiles
    OtherFiles <- MCOtherFiles
    Inputs <- MCInputs
    NoFile = NoFile
    NONE = NONE
PROPERTIES
    WordsAreRead
