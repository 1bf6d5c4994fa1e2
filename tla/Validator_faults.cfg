CONSTANTS
  Instrs = {"addi", "csrrw"}
  Fields = {"gpr", "csr"}
  CSRs = {"csr"}
  Vals = {0, 1}
  Digest <- MCDigest
  Faults = {"set", "exec", "restore", "pre", "post", "log", "logexc"}
  Unread = Unread
  NoState = NoState
SPECIFICATION Spec
CHECK_DEADLOCK FALSE
INVARIANT EarlyReadsStable
PROPERTY OncePerKey
