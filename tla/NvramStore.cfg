SPECIFICATION Spec
CONSTANTS
  p1 = p1  p2 = p2
  Layout <- Layout3
  ReadOnly <- Uboot
  Keys = {"k", "l"}
  Values = {"v", "w"}
  Len1 <- Lengths
  SIZE = 16
  MAX_ENTRY = 2
  Blocks <- OneBlock
  File <- FileLong
  InitFlash <- Factory
  Procs = {p1}
  Commands <- AllCommands
  TORN = TRUE
INVARIANTS TypeOK EntriesWhole
 
