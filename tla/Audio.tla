-------------------------------- MODULE Audio --------------------------------
(***************************************************************************)
(* The recording of one message: its asset (render/service.py), the object *)
(* in the store (storage/local.py) and the two files on the box that plays *)
(* it (telephony/staging.py): .sln, that is checked, and its A-law copy    *)
(* .alaw, that is heard.  Rows commit or roll back; the store and the      *)
(* box do neither.  Workers whose debtors hear the same words share the    *)
(* asset.  Every synthesis makes a take of its own: what is recorded of it *)
(* is its checksum, and what staging compares is its size.                 *)
(***************************************************************************)
EXTENDS Integers

CONSTANTS Speakers, NoSpeaker, MaxTakes  \* bound: how often the message is synthesised

VARIABLES asset,        \* the committed row
          store, sln, alaw,  \* the take that the object, and each file, holds
          takes,
          task,         \* what each worker has loaded, and where it is
          writer,       \* whose insert or update of the row is uncommitted
          placed,       \* history: of each take, the last call that recorded it, and what it plays
          shared, stray \* history: two workers rendered at once; one died staging its take

uvars == <<asset, store, sln, alaw, takes, task, writer, placed, shared, stray>>

Absent == 0
Truncated == -1
Takes == 1 .. MaxTakes
Size(file) == IF file \in Takes THEN (file % 2) + 1 ELSE 0
Asset == [status : {"none", "PENDING", "READY", "FAILED"}, take : {Absent} \cup Takes]
Away == [at |-> "away", asset |-> [status |-> "none", take |-> Absent], pcm |-> Absent]

Init == /\ asset = Away.asset /\ store = Absent /\ sln = Absent /\ alaw = Absent /\ takes = 0
        /\ task = [w \in Speakers |-> Away] /\ writer = NoSpeaker
        /\ placed = {} /\ shared = FALSE /\ stray = FALSE

At(w, step) == task[w].at = step
Turn(w, t) == task' = [task EXCEPT ![w] = t]
Goto(w, step) == Turn(w, [task[w] EXCEPT !.at = step])
Releases(w) == writer' = IF writer = w THEN NoSpeaker ELSE writer

\* ensure_audio looks the asset up: one that is READY is used again.
LookUp(w) ==
  /\ At(w, "away")
  /\ Turn(w, [Away EXCEPT !.at = IF asset.status = "READY" THEN "ready" ELSE "claiming",
                          !.asset = asset])
  /\ shared' = (shared \/ \E v \in Speakers \ {w} : writer = v \/ At(v, "claiming"))
  /\ UNCHANGED <<asset, store, sln, alaw, takes, writer, placed, stray>>

\* The first flush: an insert waits for another insert of the same (company_id, hash) and
\* fails once that has committed; an update waits for the row.
Claim(w) ==
  /\ At(w, "claiming") /\ writer = NoSpeaker
  /\ IF task[w].asset.status = "none" /\ asset.status # "none"
     THEN Turn(w, Away) /\ UNCHANGED writer
     ELSE /\ Turn(w, [task[w] EXCEPT !.at = "synthesising", !.asset.status = "PENDING"])
          /\ writer' = w
  /\ UNCHANGED <<asset, store, sln, alaw, takes, placed, shared, stray>>

\* The PCM is put where the last one was: an atomic write, outside the transaction.
Synthesise(w) ==
  /\ At(w, "synthesising") /\ takes < MaxTakes
  /\ takes' = takes + 1 /\ store' = takes + 1
  /\ Turn(w, [task[w] EXCEPT !.at = "putting", !.asset.take = takes + 1])
  /\ UNCHANGED <<asset, sln, alaw, writer, placed, shared, stray>>

\* Then the A-law copy, and the row says READY.
Ready(w) == /\ At(w, "putting")
            /\ Turn(w, [task[w] EXCEPT !.at = "ready", !.asset.status = "READY"])
            /\ UNCHANGED <<asset, store, sln, alaw, takes, writer, placed, shared, stray>>

\* Synthesis, or a put, raises: dispatch_buyer commits the FAILED row.
RenderFails(w) ==
  /\ task[w].at \in {"synthesising", "putting"}
  /\ asset' = [task[w].asset EXCEPT !.status = "FAILED", !.take = asset.take]
  /\ Turn(w, Away) /\ Releases(w)
  /\ UNCHANGED <<store, sln, alaw, takes, placed, shared, stray>>

\* Mutant: any file will do.
IsThere(a) == a \in Asset /\ sln # Absent

\* LocalStager.is_staged looks at the .sln only.
IsStaged(a) == sln # Absent /\ Size(sln) = Size(a.take)

\* What is staged, if it does not seem to be there, is what the store holds now ...
Stage(w) ==
  /\ At(w, "ready") /\ store # Absent
  /\ IF IsStaged(task[w].asset)
     THEN Goto(w, "staged") /\ UNCHANGED sln
     ELSE sln' = store /\ Turn(w, [task[w] EXCEPT !.at = "staging", !.pcm = store])
  /\ UNCHANGED <<asset, store, alaw, takes, writer, placed, shared, stray>>

\* ... and then, in a second write, its A-law copy.
StageCopy(w) ==
  /\ At(w, "staging") /\ alaw' = task[w].pcm
  /\ Turn(w, [task[w] EXCEPT !.at = "staged", !.pcm = Absent])
  /\ UNCHANGED <<asset, store, sln, takes, writer, placed, shared, stray>>

\* A call is heard in A-law (pjsip.conf:30-33): Asterisk plays the copy, or transcodes if
\* there is none.
Heard == IF alaw # Absent THEN alaw ELSE sln

\* preflight refuses what is not staged; either way the transaction commits, the asset
\* with it, and what passed is dialled.
Preflight(w) ==
  LET a == task[w].asset IN
  /\ At(w, "staged")
  /\ asset' = IF writer = w THEN a ELSE asset
  /\ placed' = IF IsStaged(a)
               THEN {p \in placed : p.recorded # a.take}
                      \cup {[recorded |-> a.take, checked |-> sln, heard |-> Heard,
                             doubtful |-> shared \/ stray \/ alaw = Truncated]}
               ELSE placed
  /\ Turn(w, Away) /\ Releases(w)
  /\ UNCHANGED <<store, sln, alaw, takes, shared, stray>>

\* The worker dies, or anything else raises (a write to the box, too): the row is rolled
\* back, the files stay as they are.
Dies(w) == /\ ~At(w, "away") /\ Turn(w, Away) /\ Releases(w)
           /\ stray' = (stray \/ (task[w].at \in {"staging", "staged"} /\ writer = w))
           /\ UNCHANGED <<asset, store, sln, alaw, takes, placed, shared>>

\* The box loses a file, or part of it.
BoxFails == /\ \E left \in {Absent, Truncated} :
                 \/ sln # Absent /\ sln' = left /\ UNCHANGED alaw
                 \/ alaw # Absent /\ alaw' = left /\ UNCHANGED sln
            /\ UNCHANGED <<asset, store, takes, task, writer, placed, shared, stray>>

Next == \/ \E w \in Speakers : \/ LookUp(w) \/ Claim(w) \/ Synthesise(w) \/ Ready(w)
                               \/ RenderFails(w) \/ Stage(w) \/ StageCopy(w)
                               \/ Preflight(w) \/ Dies(w)
        \/ BoxFails

Spec == Init /\ [][Next]_uvars

---------------------------------------------------------------------------
TypeOK == /\ asset \in Asset /\ {store} \subseteq {Absent} \cup Takes
          /\ {sln, alaw} \subseteq {Absent, Truncated} \cup Takes /\ writer \in Speakers \cup {NoSpeaker}
          /\ \A w \in Speakers : task[w].asset \in Asset

\* A call is placed only with a whole .sln of the recorded size; and it plays the very take
\* whose checksum the asset keeps, which the asset keeps from then on, unless two workers
\* rendered the message at once or one died between staging its take and committing it, for
\* the size alone cannot tell takes apart (staging.py:69-76, service.py:106-145); or unless
\* the box has lost part of the .alaw, which "asset present with the right byte size" as
\* "a policy gate" (staging.py:3-9) does not see.
PlayedAsRecorded ==
  \A p \in placed :
    /\ p.checked \in Takes /\ Size(p.checked) = Size(p.recorded)
    /\ ~p.doubtful => p.heard = p.recorded
    /\ ~shared => asset = [status |-> "READY", take |-> p.recorded]
=============================================================================
