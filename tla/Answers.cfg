SPECIFICATION Spec
CONSTANTS
    None = None
    Texts <- MCTexts
    Numerals <- MCNumerals
    Truths = {"true", "1"}
    Falsehoods = {"0", "false"}
    Moments <- MCMoments
    Emails = {"a@b.pl"}
    Phones <- MCPhones
    Colors = {"#fff"}
    Uuids <- MCUuids
    NameOf <- MCNameOf
    Raws <- MCRaws
    Values <- MCValues
    Attributes <- MCAttributes
INVARIANTS
    TypeOK
    ValuesSound
    AnswersOut
    ColumnsKept
CHECK_DEADLOCK FALSE
