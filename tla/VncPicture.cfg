SPECIFICATION VncStreamSpec
CONSTANTS
    Cells = {c1, c2}
    MaxChanges = 1
    MaxPending = 1

PROPERTY PictureFollowsScreen
CHECK_DEADLOCK FALSE
