---------------------------- MODULE AtomicConfig ----------------------------
(***************************************************************************)
(* What the admin API promises of the configuration: it is one value, and  *)
(* every request that changes it changes the value the requests before it  *)
(* left.  The promise lapses when two of them overlap or a save breaks off.*)
(***************************************************************************)
EXTENDS ConfigTables

CONSTANTS InitialConfigs, Lapsed

VARIABLE config

Put(t, item) == config' = [config EXCEPT ![t] = Upsert(@, item)]

PutUser(payload) ==
    /\ payload.pw = Empty => HasKey(config["users"], payload.key)
    /\ Put("users", UserToStore(config["users"], payload))

DeleteKey(t, k) == /\ HasKey(config[t], k)
                   /\ config' = [config EXCEPT ![t] = Delete(@, k)]

Init == config \in InitialConfigs

Change == \/ \E payload \in Users : PutUser(payload)
          \/ \E app \in Apps : Put("apps", app)
          \/ \E dav \in Davs : Put("davs", dav)
          \/ \E t \in Tables : \E i \in DOMAIN config[t] : DeleteKey(t, config[t][i].key)

Next == config # Lapsed /\ (Change \/ config' = Lapsed)

Spec == Init /\ [][Next]_config
=============================================================================
