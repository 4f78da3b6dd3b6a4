\* Two actions of different length and two reads are enough for a store to
\* write over a file of the other.
SPECIFICATION Spec
CHECK_DEADLOCK FALSE
CONSTANTS
    FileTool = {"read_file"}
    QueryTool = {"search_artifact"}
    RuntimeTool = {"read_knowledge_page"}
    PlatformTool = {"tap"}
    CommonTool = {"wait_ms"}
    ActionSpaces <- Spaces
    Recent = 1
    Sizes = {"short", "long", "huge"}
    MaxCalls = 3
    MaxBatch = 1
INVARIANTS
    DetailsRecoverable
