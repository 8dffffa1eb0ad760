---------------------------- MODULE PasswordFile ----------------------------
(* What pam_chauthtok promises of /etc/shadow, with the locking, the        *)
(* temporary file and the copying loop of update_shadow_password left out:  *)
(* a call changes the line of its own user, to its own hash, in one step    *)
(* and answers PAM_SUCCESS exactly when it did; a process that dies leaves  *)
(* the file as it is; a power failure brings back a complete version, never *)
(* a mixture.                                                               *)
EXTENDS Naturals

CONSTANTS
  Procs,        \* processes that call pam_chauthtok
  Users,        \* user names
  Hashes,       \* password hashes
  NoLine,       \* the user has no line in the file
  InitShadow    \* the file at the start

VARIABLES
  store,        \* the file every process sees
  durable,      \* the version the disk holds
  job,          \* what each process is doing with the file
  ret           \* what each process's last call returned

vars == <<store, durable, job, ret>>

Idle == [phase |-> "idle"]
Job(ph, u, h) == [phase |-> ph, user |-> u, hash |-> h]

Init ==
  /\ store = InitShadow
  /\ durable = InitShadow
  /\ job = [p \in Procs |-> Idle]
  /\ ret = [p \in Procs |-> "none"]

Request(p, u, h) ==
  /\ job[p] = Idle
  /\ job' = [job EXCEPT ![p] = Job("pending", u, h)]
  /\ ret' = [ret EXCEPT ![p] = "none"]
  /\ UNCHANGED <<store, durable>>

Commit(p, u, h) ==
  /\ job[p] = Job("pending", u, h)
  /\ store' = [store EXCEPT ![u] = h]
  /\ job' = [job EXCEPT ![p] = Job("committed", u, h)]
  /\ UNCHANGED <<durable, ret>>

Answer(p) ==
  /\ job[p] # Idle
  /\ job' = [job EXCEPT ![p] = Idle]
  /\ \E r \in IF job[p].phase = "committed"
              THEN {"SUCCESS"} ELSE {"AUTHTOK_ERR", "LOCK_BUSY"} :
       ret' = [ret EXCEPT ![p] = r]
  /\ UNCHANGED <<store, durable>>

Abort(p) ==
  /\ job[p] # Idle
  /\ job' = [job EXCEPT ![p] = Idle]
  /\ UNCHANGED <<store, durable, ret>>

Persist ==
  /\ durable' = store
  /\ UNCHANGED <<store, job, ret>>

PowerLoss ==
  /\ store' \in {store, durable}
  /\ durable' = store'
  /\ job' = [p \in Procs |-> Idle]
  /\ ret' = [p \in Procs |-> "none"]

Next ==
  \/ \E p \in Procs, u \in Users, h \in Hashes : Request(p, u, h) \/ Commit(p, u, h)
  \/ \E p \in Procs : Answer(p) \/ Abort(p)
  \/ Persist
  \/ PowerLoss

Spec == Init /\ [][Next]_vars

=============================================================================
