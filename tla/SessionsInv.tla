---------------------------- MODULE SessionsInv -----------------------------
(***************************************************************************)
(* The inductive invariant behind the safety properties of Sessions.  Each *)
(* part is inductive together with the parts before it.                    *)
(***************************************************************************)
EXTENDS Sessions

\* A command that works on a session names it, and commands run on the kind
\* of vault they are for; a locked vault has no map and no attached tasks.
CommandShape ==
  /\ cur = NoSession <=> pc \in {"idle", "drain", "read", "rows", "sweep"}
  /\ pc \in StartPC \cup RunPC \cup StopPC \cup {"drain"} => vault = "open"
  /\ pc \in RecoveryPC => vault = "locked"
  /\ vault = "locked" => active = {} /\ attached = {}
  /\ pc = "rowHist" => cur \in todo

\* An unused id has left no trace, and a session being started has no task
\* yet, so that nothing but its command can write its row.
FreshIds ==
  /\ \A s \in Session : Unused(s) =>
       row[s] = "none" /\ hist[s] = "none" /\ s \notin files /\ task[s] = "none"
         /\ s \notin drop /\ s \notin active
  /\ cur # NoSession => ~Unused(cur)
  /\ \A s \in todo : ~Unused(s)
  /\ pc \in {"inject", "record", "runRecord"} => row[cur] = "none"
  /\ pc \in {"inject", "record", "histStart", "runRecord", "runHist"} =>
       hist[cur] = "none"
  /\ pc \in {"histStart", "flagOn", "runHist", "runInsert"} =>
       row[cur] = "Active"
  /\ pc \in {"inject", "record", "histStart", "flagOn"} \cup RunPC =>
       task[cur] = "none" /\ cur \notin active

\* An ephemeral file belongs to a session that dropped one, never to a
\* spawned process, and it is gone before the writes that end the session.
FileRemoved(s) == s \notin files \/ s \in lostFile

FilesInv ==
  /\ \A s \in Session : s \in files => s \in drop
  /\ pc \in RunPC => cur \notin drop
  /\ \A s \in Session : task[s] \in {"waiting", "waitHist"} => s \notin drop
  /\ pc \in {"mark", "histStop", "flagOff"} => FileRemoved(cur)
  /\ \A s \in Session :
       task[s] \in {"mark", "histStop", "flagOff", "unlist", "done"} => FileRemoved(s)
  /\ pc = "rows" => \A s \in ActiveRows : s \in todo \/ FileRemoved(s)
  /\ pc = "rowHist" =>
       \A s \in ActiveRows : s \in todo \ {cur} \/ FileRemoved(s)
  /\ FilesCovered

\* Recovery reaches its bulk UPDATE with every Active row's history closed.
HistoryClosed(s) == hist[s] # "open" \/ s \in lostStop

HistoryInv ==
  /\ pc \in {"rows", "rowHist"} =>
       \A s \in ActiveRows : s \in todo \/ HistoryClosed(s)
  /\ OpenHistoryExplained

\* Whoever unlists a session has ended its row first.
ListInv ==
  /\ pc \in {"histStop", "flagOff"} => row[cur] # "Active"
  /\ pc = "lastUsed" => cur \in active
  /\ faults = 0 => \A s \in attached :
       task[s] \in {"histStop", "flagOff", "unlist", "done", "waitHist"} =>
         row[s] # "Active"
  /\ pc = "sweep" /\ faults = 0 => ActiveRows = {}
  /\ ActiveRowsListed

\* A timer past its wake-up answers for no name; somebody else does.
EnvInv ==
  /\ ~Windows => env = {}
  /\ \A k \in env :
       \/ k \in lostEnv
       \/ \E s \in Session : k \in keys[s] /\ task[s] \in {"none", "armed"} /\
            (s \in active \/ (cur = s /\ pc \in InjectedPC))

IInv == TypeOK /\ CommandShape /\ FreshIds /\ FilesInv /\ HistoryInv /\ ListInv
        /\ EnvInv

-----------------------------------------------------------------------------
(* What holds of every step whether or not it is fair: the part of the     *)
(* liveness properties that does not depend on anybody going on.           *)

\* The awaits that a command at l has left, the rounds of its loops aside.
AwaitsLeft(l) ==
  CASE l = "idle"                                                       -> 0
    [] l \in {"lastUsed", "runInsert", "flagOff", "drain", "sweep"}     -> 1
    [] l \in {"insert", "runHist", "histStop"}                          -> 2
    [] l \in {"flagOn", "runRecord", "mark", "rows", "rowHist"}         -> 3
    [] l \in {"histStart", "cleanup", "read"}                           -> 4
    [] l \in {"record", "kill"}                                         -> 5
    [] l \in {"inject", "unset"}                                        -> 6

Smaller(s, t) == s \subseteq t /\ s # t

\* Each step of a command takes it to a later await, or takes a session from
\* what its loop has left: the map for lock_vault, the Active rows for the
\* recovery.
Forward ==
  \/ AwaitsLeft(pc') < AwaitsLeft(pc)
  \/ pc = "drain" /\ pc' = "drain" /\ Smaller(active', active)
  \/ pc = "rows" /\ pc' = "rowHist" /\ todo' = todo
  \/ pc = "rowHist" /\ pc' = "rows" /\ Smaller(todo', todo)

\* Nobody else gives it more to do; only the end of the process takes it away.
LeftAlone ==
  \/ pc' = "idle"
  \/ UNCHANGED <<pc, cur, todo>> /\ (pc = "drain" => UNCHANGED active)

\* A command in flight comes nearer to its end with every step of its own,
\* and no timer, waiter, child or other command undoes that: lock_vault's loop
\* is never given another session, nor recovery another row.
CommandsAdvance ==
  [][pc # "idle" => IF CommandStep THEN Forward ELSE LeftAlone]_vars

\* A session that has ended, whoever ended it and in whatever order the
\* command, the timer and recovery wrote its rows, is never Active again, and
\* its history entry is never opened again.
EndedStaysEnded ==
  [][\A s \in Session :
       /\ row[s] \in {"Expired", "Terminated"} => row'[s] # "Active"
       /\ hist[s] = "stopped" => hist'[s] # "open"]_vars

\* Once a timer is past its cleanup the file of its session is gone for good,
\* unless its removal failed.
ExpiredFileGone ==
  \A s \in Session :
    task[s] \in {"mark", "histStop", "flagOff", "unlist", "done"} =>
      s \notin files \/ s \in lostFile
=============================================================================
