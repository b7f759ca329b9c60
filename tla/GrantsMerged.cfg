SPECIFICATION FormsSpec
CONSTANTS
    n1 = n1
    n2 = n2
    b1 = b1
    b2 = b2
    Null = Null
    AdminIds <- TwoIds
    AppIds <- TwoIds
    CardIds <- OneId
    Names = {n1, n2}
    DefaultName = n1
    Browsers = {b1, b2}
PROPERTIES
    OneFormStands
