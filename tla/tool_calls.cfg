\* Three calls in answers of one or two; the last output is never cut. A run
\* that was recorded stops.
SPECIFICATION Spec
CHECK_DEADLOCK FALSE
CONSTANTS
    FileTool = {"read_file"}
    QueryTool = {"search_artifact"}
    RuntimeTool = {"read_knowledge_page"}
    PlatformTool = {"tap"}
    CommonTool = {"wait_ms"}
    ActionSpaces <- Spaces
    Recent = 1
    Sizes = {"long"}
    MaxCalls = 3
    MaxBatch = 2
INVARIANTS
    TypeOK
    ArtifactsAreOwn
    ReportPairsCalls
    RecordedInOrder
