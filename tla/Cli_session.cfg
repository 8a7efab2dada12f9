SPECIFICATION CliSpec
CONSTANTS
    Total = 3
    MaxInflight = 1
INVARIANTS ScreenTells NoSaveMissed CongratulationsEarned ReportTrue
PROPERTIES SessionEnds
