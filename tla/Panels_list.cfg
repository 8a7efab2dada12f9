SPECIFICATION PanelsSpec
CONSTANTS
    Total = 2
    MaxInflight = 1
PROPERTY ListKeyLists
