SPECIFICATION Spec
CONSTANTS
    Packages <- SomePackages
    Pdfs <- SomePdfs
    MinTextChars = 2
    MaxNesting = 4
    MaxElements = 5
INVARIANTS
    EachTableIsOneBlock
CHECK_DEADLOCK FALSE
