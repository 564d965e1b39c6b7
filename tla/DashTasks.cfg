SPECIFICATION TasksLiveSpec
CONSTANTS
    j1 = j1
    j2 = j2
    f1 = f1
    f2 = f2
    f3 = f3
    n1 = n1
    n2 = n2
    n3 = n3
    pod = pod
    pv = pv
    pvc = pvc
    cm = cm
    Segments <- Words
    Snake <- Snaked
    Models <- Native
    Specs <- SpecsOf
    Schemas <- SchemasOf
    Ordinal <- Numbers
    Items <- Stock
    Forms <- FormsOf
    Inputs <- InputsOf
    Job = {j1, j2}
    Values <- Both
    Accepted <- Fitting
    Version = {1, 2}
    Docs <- TwoDocs
    Immutable = {pv}
    Claim = {pvc}
    None = None
    Limit = 3
    Function = {f1, f2, f3}
    Nodes <- NodesOf
    Pipe = {f2}
    Unsupported = {n3}
    EnvNames <- Names
    Optional = {"PIPE_ENCODER", "PIPE_MODEL_IN", "PIPE_MODEL_OUT", "NATS_ACCOUNT"}
    Secret = {"AWS_ACCESS_KEY_ID"}
    Plugins <- PluginsOf
    Contexts <- ContextsOf
    NodeEnvs <- EnvsOf
INVARIANTS TasksSafe FieldsHold InputsHold EnvsHold
PROPERTY TasksSettle
CHECK_DEADLOCK FALSE
