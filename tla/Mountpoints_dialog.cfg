CONSTANTS
  home = home
  usb = usb
  blank = blank
  Points = {home, usb, blank}
  Escaped = {blank}
  Systems <- MCSystems
  MaxMounts = 3
  NoPath = NoPath
SPECIFICATION Spec
INVARIANT TypeOK
PROPERTY ScansOnlyOffered
