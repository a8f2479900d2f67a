---------------------------- MODULE MCLifecycle -----------------------------
(***************************************************************************)
(* Bounded instance of Lifecycle: two datasources, each lazy or not, one  *)
(* or two of them in the configuration (a name twice is rejected), and    *)
(* every choice of datasources for streams, exec jobs and SQL endpoints. *)
(***************************************************************************)
EXTENDS Lifecycle

CONSTANTS d1, d2, u1, u2

MCDsNames == {d1, d2}
MCUsers == {u1, u2}

\* d1 is configured with a timeout, d2 without.
MCDsTimeout == [d \in MCDsNames |-> d = d1]

\* u2 runs endpoints and jobs with TxOptions, u1 without.
MCTxUsers == {u2}

NoPool == [minConns |-> Unset, maxConns |-> Unset]

DsEntries == [name : MCDsNames, lazy : BOOLEAN, pool : {NoPool}]

\* math.MaxInt32 scaled to 7, DefaultMaxConns to 4: pool settings of one
\* datasource, the int64 8 being beyond int32.
MCMaxInt32 == 7
MCDefaultMaxConns == 4
PoolOpts == {Unset, <<0>>, <<2>>, <<5>>, <<8>>}
PoolEntries == [name : {d1}, lazy : {FALSE},
                pool : [minConns : PoolOpts, maxConns : PoolOpts]]

MCConfigs ==
    [dss : {<<e>> : e \in DsEntries} \cup {<<e, f>> : e, f \in DsEntries},
     streams : SUBSET [ds : MCDsNames, ch : {"chan"}],
     jobs : SUBSET MCDsNames,
     eps : SUBSET MCDsNames]

\* One datasource with every pool setting, and nothing that uses it.
MCPoolConfigs ==
    [dss : {<<e>> : e \in PoolEntries}, streams : {{}}, jobs : {{}}, eps : {{}}]
\* The pass-run configurations and the pool settings.
MCAllConfigs == MCConfigs \cup MCPoolConfigs
=============================================================================
