--------------------------- MODULE MCRdmaTransfer ---------------------------
(* Two client processes and two objects.  The configurations choose the    *)
(* programs they run, the ids they generate and the sizes of the data.     *)
EXTENDS RdmaTransfer, TLC

CONSTANTS c1, c2

MCClient == {c1, c2}
MCId     == {"rdma-1", "rdma-2"}

\* getpid() differs on one host, and can be the same on two hosts.
UniqueIds    == c1 :> "rdma-1" @@ c2 :> "rdma-2"
CollidingIds == c1 :> "rdma-1" @@ c2 :> "rdma-1"

NoReceivers  == {}
OneReceiver  == {c2}

MCKey    == {"a", "b"}
OneKey   == c1 :> "a" @@ c2 :> "a"
TwoKeys  == c1 :> "a" @@ c2 :> "b"

SameSizeFiles == c1 :> <<1, 1>> @@ c2 :> <<2, 2>>
ShorterFiles  == c1 :> <<1>> @@ c2 :> <<2>>
MCInitStore   == "a" :> <<3, 3>> @@ "b" :> <<4, 4>>
=============================================================================
