------------------------------ MODULE MCMtcLog ------------------------------
(***************************************************************************)
(* Merkle Tree Certificates for TLC: the log with one background job and   *)
(* one administrator's, those who read it, the external cosigner, and the  *)
(* validator of test vectors.  A behaviour exercises one of the Parts.     *)
(***************************************************************************)
EXTENDS MtcLog, MtcReaders, Cosigner, TLC

CONSTANT Parts
VARIABLE part
vars == <<part, mvars, readVars, cosVars, vecVars>>

MCTaskJobs == {"task"}
MCJobs == MCTaskJobs \cup {"admin"}

MCConf(key, anchor, contact) == [log |-> TRUE, key |-> key, anchor |-> anchor, contact |-> contact]
MCCaConf == [a |-> MCConf("ed25519", TRUE, TRUE), b |-> MCConf("ec", TRUE, FALSE), d |-> MCConf("mldsa44", TRUE, TRUE),
             e |-> MCConf("rsa", TRUE, TRUE), f |-> MCConf("none", TRUE, TRUE), g |-> MCConf("ec", FALSE, TRUE),
             h |-> [log |-> FALSE, key |-> "none", anchor |-> FALSE, contact |-> FALSE]]
MCCertAt == [x |-> [ca |-> "a", idx |-> 1], y |-> [ca |-> "a", idx |-> 4], z |-> [ca |-> "b", idx |-> 1], n |-> [ca |-> "a", idx |-> -1]]
MCMaxLeaves == [a |-> 7, b |-> 2, d |-> 1, e |-> 1, f |-> 1, g |-> 1]

MCCos(boot, type, hook, tls, unix) == [boot |-> boot, type |-> type, hook |-> hook, tls |-> tls, unix |-> unix]
MCCosignerConfigs ==
    {MCCos(TRUE, "http-01", FALSE, FALSE, FALSE), MCCos(TRUE, "dns-01", TRUE, FALSE, FALSE), MCCos(TRUE, "dns-persist-01", FALSE, TRUE, FALSE),
     MCCos(TRUE, "tls-alpn-01", FALSE, FALSE, FALSE), MCCos(FALSE, "http-01", FALSE, FALSE, TRUE), MCCos(TRUE, "http-01", FALSE, FALSE, TRUE)}

MCCert(seq, start, end) == [seq |-> seq, start |-> start, end |-> end]
MCEntry(null, key, n, cs, seqs) == [null |-> null, key |-> key, eku |-> "known", repeat |-> n, certs |-> cs, seqs |-> seqs]
MCVectorEntries ==
    {MCEntry(TRUE, 0, 3, <<>>, <<>>), MCEntry(FALSE, 1, 0, <<MCCert("p", 0, 0)>>, <<>>), MCEntry(FALSE, 2, 1, <<MCCert("p", 0, 0), MCCert("q", 0, 0)>>, <<"p">>),
     MCEntry(FALSE, 1, 2, <<MCCert("q", 0, 0)>>, <<"q">>), MCEntry(FALSE, 1, 1, <<>>, <<"p", "q">>), MCEntry(FALSE, 3, 1, <<MCCert("", 2, 4)>>, <<>>),
     MCEntry(FALSE, 1, 1, <<MCCert("p", 0, 2)>>, <<>>), MCEntry(FALSE, 0, 1, <<>>, <<>>), [MCEntry(FALSE, 1, 1, <<>>, <<>>) EXCEPT !.eku = "unknown"]}

MCInit ==
    /\ VectorsInit /\ part \in Parts /\ Init /\ ReadersInit /\ CosignerInit /\ (part # "read" => topic = "tree")
    /\ part # "cosigner" => conf = (CHOOSE c \in CosignerConfigs : TRUE)
MCNext ==
    /\ UNCHANGED part
    /\ \/ part = "log" /\ Next /\ UNCHANGED <<readVars, cosVars, vecVars>>
       \/ part = "read" /\ ReadersNext /\ UNCHANGED <<mvars, cosVars, vecVars>>
       \/ part = "cosigner" /\ CosignerNext /\ UNCHANGED <<mvars, readVars, vecVars>>
       \/ part = "vectors" /\ VectorsNext /\ UNCHANGED <<mvars, readVars, cosVars>>
MCSpec == MCInit /\ [][MCNext]_vars
=============================================================================
