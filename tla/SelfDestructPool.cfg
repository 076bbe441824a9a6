SPECIFICATION Spec
CONSTANTS
    SysBlock = {sda, sdb, boot, usb}
    RootDev = boot
    Spared = {usb}
    MaxCuts = 0
PROPERTIES
    ConfigGoesAfterPool
