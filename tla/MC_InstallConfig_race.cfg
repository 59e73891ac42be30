\* Two installer processes saving the same config file.
CONSTANTS
    o1 = o1
    o2 = o2
    p1 = p1
    p2 = p2
    Procs <- MC_TwoProcs
    DataDirs <- MC_DataDirs
    Others <- MC_Others
    None = None
    Err = Err
SPECIFICATION Spec
INVARIANT
    SavedConfigLoads
