CONSTANTS
    w1 = w1  w2 = w2
    NoFile = NoFile
    Writers = {w1, w2}
    WriterProcess <- SameProcess
    Inodes = {i1, i2, i3, i4}
    MaxEvents = 3

SPECIFICATION Spec
INVARIANTS TypeOK RecordReadable LogIsOfTheRecord
PROPERTIES AcknowledgedIsKept KeepsHistory
