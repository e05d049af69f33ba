----------------------------- MODULE ChatBackup -----------------------------
(***************************************************************************)
(* What the backup and restore commands demand of the chat tables          *)
(* (validateDatabase in server/operations/backupRestore.ts).               *)
(***************************************************************************)
EXTENDS ChatTurns

ActiveChat ==
  \E t \in Turn :
    \/ turns[t].state \in {"queued", "running"}
    \/ \E n \in 1..Len(attempts[t]) : attempts[t][n].outcome = "running"
    \/ \E n \in AttemptNumber, s \in Stage : calls[t][n][s].status \in Unconfirmed

EndedBy(t, how) ==
  \E n \in 1..Len(attempts[t]) : n = turns[t].attemptCount /\ attempts[t][n].outcome = how

(* The relationship query over chat_turns, chat_attempts and chat_claims.   *)
TurnRowIsSound(t) ==
  /\ turns[t].attemptCount = Len(attempts[t])
  /\ turns[t].state = "answered" => answer[t] # 0 /\ EndedBy(t, "answered")
  /\ turns[t].state = "refused" => answer[t] = 0 /\ EndedBy(t, "refused")
  /\ turns[t].state = "failed" => EndedBy(t, "failed")

BackupAcceptsChat ==
  ~ActiveChat /\ \A t \in Turn : turns[t].state # "absent" => TurnRowIsSound(t)

(* README.md's instruction for a backup, "Stop all writers and verify       *)
(* quiescence": when no worker is up and no question waits or runs, the     *)
(* chat tables are accepted.                                                *)
QuietChatIsBackedUp ==
  /\ \A w \in Worker : ~Alive(w)
  /\ \A t \in Turn : turns[t].state \notin {"queued", "running"}
  => BackupAcceptsChat
=============================================================================
