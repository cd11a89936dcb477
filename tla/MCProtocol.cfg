SPECIFICATION FairSpec
CONSTANTS
    n1 = n1
    n2 = n2
    n3 = n3
    Nodes = {n1, n2, n3}
    Maxima <- MCMaxima
    MaxStarts = 4
    Faults = {"call", "early", "linger"}
INVARIANTS Agreement
PROPERTIES Served
CHECK_DEADLOCK FALSE
