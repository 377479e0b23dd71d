CONSTANTS
    i1 = i1
    i2 = i2
    b1 = b1
    b2 = b2
    Images = {i1, i2}
    BlobIds = {b1, b2}
    NoImage = NoImage
    NoBlob = NoBlob
    Content <- MCContent
    MaxBuilds <- MCMaxBuilds
    PartialBuilds = FALSE
SPECIFICATION Spec
INVARIANTS
    TypeOK
    

    
