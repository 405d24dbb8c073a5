SPECIFICATION ArchiveSpec
CONSTANTS
    m1 = m1
    m2 = m2
    t1 = t1
    t2 = t2
    Msgs <- RacesMsgs
    Mine <- RacesMsgs
    Texts <- RacesTexts
    NoText = NoText
    Control = Control
    NoRow = NoRow
    PageSize = 1
    MaxRowid = 3
    MaxBoots = 3
INVARIANTS SearchTruthful
PROPERTIES ReceiptNeverRegresses
