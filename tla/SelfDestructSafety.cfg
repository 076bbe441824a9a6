SPECIFICATION FairSpec
CONSTANTS
    SysBlock = {sda, sdb, boot, usb}
    RootDev = boot
    Spared = {usb}
    MaxCuts = 1
INVARIANTS
    TypeOK
    DisarmedAfterWipe
PROPERTIES
    SuccessMeansZeroed
    ArmedBoxIsWiped
