\* Two callers, one download, an epoch with room for one complaint;
\* up to three services of two types and two Starts of the node;
\* two message servers, two messages from one client and one from the other,
\* channels with room for one, and two Starts.
SPECIFICATION MCSpec

CONSTANTS
  plain = plain
  complaint = complaint
  report = report
  Tx = {plain, complaint, report}
  Complaint = {complaint}
  Report = {report}
  Batch <- MCBatch
  Caller = {c1, c2}
  MaxCalls = 2
  Download = {d1}
  Controller = {k1, k2}
  MaxSwitches = 2
  EpochCap = 1
  Type = {chain, rpc}
  Waiter = {w}
  MaxServices = 3
  MaxStarts = 2
  Server = {s1, s2}
  MaxServerStarts = 2
  s1 = s1
  s2 = s2
  MaxMsgs <- MCMaxMsgs
  SendCap = 1
  ReceiveCap = 1
  NetCap = 1

 
 
INVARIANT MessagesForwarded
 

\* The calls come to an end, and so do the Starts.
CHECK_DEADLOCK FALSE
