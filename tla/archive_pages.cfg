SPECIFICATION ArchiveSpec
CONSTANTS
    m1 = m1
    m2 = m2
    t1 = t1
    t2 = t2
    Msgs <- PagesMsgs
    Mine <- PagesMine
    Texts <- PagesTexts
    NoText = NoText
    Control = Control
    NoRow = NoRow
    PageSize = 1
    MaxRowid = 3
    MaxBoots = 2
INVARIANTS NothingSkipped
PROPERTIES EventuallySearchable
