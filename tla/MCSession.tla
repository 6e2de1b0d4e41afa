----------------------------- MODULE MCSession -----------------------------
EXTENDS Session

CONSTANTS small, text, noise, huge

MCData == Control \cup {small, text, noise, huge}

(* text and huge compress well, noise does not; huge exceeds MaxPayload.   *)
MCSize == [d \in MCData |-> CASE d \in {text, noise} -> 3 [] d = huge -> 5
                              [] OTHER -> 1]
MCZipSize == [d \in MCData |-> CASE d \in {text, huge} -> 2 [] d = noise -> 4
                                 [] OTHER -> 2]

Message(flags, d, zip) == [flags |-> flags, payload |-> [data |-> d, zip |-> zip]]

(* Without and with raw binary; compressed by the caller; marked as such   *)
(* although they are not; a compressed payload that is too large inside.   *)
MCMessages ==
  {Message({}, d, FALSE) : d \in {small, text, noise, huge}}
    \cup {Message({"raw"}, text, FALSE), Message({"compressed"}, text, TRUE),
          Message({"compressed"}, small, FALSE), Message({"compressed"}, huge, TRUE),
          Message({}, text, TRUE)}
=============================================================================
