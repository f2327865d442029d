SPECIFICATION Spec
CONSTANTS
    d1 = d1  d2 = d2
    None = None
    Models = {"cutoutnet", "u2net", "u2net-onnx", "cutoutnet-onnx", "tensorrt"}
    Installed = {"onnxruntime", "tensorrt", "cuda"}
    Precisions = {"fp32"}
    WeightsDirs = {"repo", "mounted"}
    Downloaders = {d1, d2}
    Wanted = {"u2net-onnx", "u2net"}
    Conversions <- MCConversions
    Trained = "cutoutnet-small"
    Exported = {"cutoutnet"}
    MaxEntries = 1
    MaxEpochs = 2
    Scores <- MCScores
    MaxWrites = 6
    MaxStarts = 4
    MaxBusy = 2
SYMMETRY Symmetry
INVARIANTS
    FilesAreTrue
    RunNamesItsBest
    LoadsAreSound
    RowNamesItsWeights
