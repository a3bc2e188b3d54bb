CONSTANTS
    p1 = p1  p2 = p2  c1 = c1  c2 = c2  a1 = a1  a2 = a2
    b1 = b1  q1 = q1  q2 = q2  r1 = r1  r2 = r2
    NoCmd = NoCmd  NoProc = NoProc  NoEnv = NoEnv  NoReply = NoReply
    CmdId <- MCCmdId
    Proc <- MCProc
    Actor <- MCActor
    Blob <- MCBlob
    Body <- MCBody
    Result <- MCResult
    Envelope <- MCEnvelope
    MaxLog = 3
SPECIFICATION FairSpec
INVARIANTS
    AnswersHold
    CopiesAreTrue
    NoDanglingArtifact
PROPERTIES
    KeepsPromise
    LockIsReleased
