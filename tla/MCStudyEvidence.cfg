SPECIFICATION Spec
CONSTANTS
    Phrases = {"complaint", "delayed", "workflow", "maintenance", "tenant", "communication", "work order", "ombudsman", "consumer affairs", "court", "news", "reddit", "forum", "research", "guide", "procurement", "market size", "pricing", "top 10"}
    MaxPhrases = 5
    Sizes = {1, 2, 7, 8}
    MaxAdded = 2
    Trusts = {70, 98}
    Strengths = {45, 75}
INVARIANTS
    TypeOK
    RefusalExplained
PROPERTIES
    NoLaundering
    CorroborationHelps
CHECK_DEADLOCK FALSE
