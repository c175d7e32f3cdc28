\* Two media sends with their echoes, one with receipts and one reacted to; a
\* reply that is reacted to; two text sends that share the allowance, one of
\* them revoked; a message from the phone, with receipts; one that arrives twice
\* and is in the history; one with reactions of two people, an edit, a revoke.
SPECIFICATION FairSpec
CONSTANTS
  p = p  q = q  r = r  t = t  v = v  f = f  i = i  j = j
  pEcho = pEcho  qEcho = qEcho  rEcho = rEcho  fEcho = fEcho
  in1 = in1  in2 = in2  in3 = in3  s1 = s1  s2 = s2
  Text = {t, v, r}
  Media = {p, q}
  Replies = {r}
  Phone = {f}
  Inbound = {i, j}
  Acked <- MCAcked
  Touched = {q, r, j}
  Ops <- MCOps
  Revocable = {j, v}
  Imports = {f, i}
  Senders = {s1, s2}
  Edits = {"new"}
  Reports = {pEcho, qEcho, rEcho, fEcho, in1, in2, in3}
  Of <- MCOf
  Limit = 1
  Faults = {"db", "crash", "delete", "noid"}
  Casts = {{p}, {q}, {r}, {t, v}, {f}, {i}, {j}}
  MaxChain <- MCChain
  MaxUpsets = 1
INVARIANTS TypeOK QuotaAccount NotFailedOnceSent OneCopy ReceivedOnce MutationsKept NoOrphanRows
PROPERTIES AcksAdvance PendingResolves
CHECK_DEADLOCK FALSE
