------------------------------ MODULE MCClient ------------------------------
(***************************************************************************)
(* Two requests over a pool of one connection: the first one for any       *)
(* method of the client, the other to get a key.  The server stops twice,  *)
(* so that acquire meets two dead connections and connects by itself, and  *)
(* one request is given up.                                                *)
(***************************************************************************)
EXTENDS Client

Args == "str" :> "a" @@ "u32" :> 1 @@ "u64" :> 2 @@ "bytes" :> "v" @@
        "entries" :> "es" @@ "blobs" :> "bs"

CallOf(op) == [op |-> op, args |-> [i \in DOMAIN Requests[op].kinds |->
                                        <<i, Args[Requests[op].kinds[i]]>>]]

MCHandlers == 1 .. 2
MCCalls    == [h \in MCHandlers |->
                  IF h = 1 THEN {CallOf(op) : op \in DOMAIN Requests}
                  ELSE {CallOf("GetKey")}]
MCTooLarge == {CallOf("AddRange")}
MCConns    == 1 .. 4
=============================================================================
