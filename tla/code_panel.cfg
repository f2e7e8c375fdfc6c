SPECIFICATION Spec
CONSTANTS
    Langs = {"go", "java"}
    Codes = {"code1", "code2", "code3"}
    Edits = {"edited"}
    MaxTimers = 3
INVARIANTS TypeOK ModesExclusive
PROPERTIES OnlyStaleTimersDisturb TimersDrain
