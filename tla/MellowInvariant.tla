--------------------------- MODULE MellowInvariant ---------------------------
(***************************************************************************)
(* The inductive invariant behind the safety properties of the Mellow      *)
(* transaction: what each program point knows about the journal, the       *)
(* snapshots and the live components.                                      *)
(***************************************************************************)
EXTENDS MellowTransaction

\* Component c is its original, in the cache and on the disk.
Intact(c) == target[c] = original[c] /\ disk[c] = original[c]

IntactUnlessTouched(S) == \A c \in S \ touched : Intact(c)

Durable(S) == \A c \in S : disk[c] = target[c]

\* u holds nothing unrecognisable that t did not hold.
NoWorse(u, t, o, p) ==
    \A n \in Names : Unrecognised(u, n, o, p) => Unrecognised(t, n, o, p)

\* Program points of prepare() after the originals were read.
Preparing == {"mkdir", "preparing", "snapshot", "check", "sync", "recheck", "publish", "link"}

\* The journal at each program point.
JournalInv ==
    /\ ~active => receipt = "none" /\ ~linked
    /\ pc = "mkdir" => ~active
    /\ pc = "preparing" => active /\ receipt = "none" /\ ~linked
    /\ pc \in {"snapshot", "check", "sync", "recheck", "publish"} =>
          active /\ receipt = "preparing" /\ ~linked
    /\ pc = "link" => active /\ receipt = "prepared"
    /\ pc \in Installing \union {"installed", "verified"} =>
          active /\ linked /\ receipt = "prepared"
    /\ pc \in {"owned", "pending"} =>
          active /\ receipt \in {"prepared", "files_verified", "rollback_pending"}
    /\ pc \in Restoring \union {"restored"} => active /\ receipt = "rollback_pending"
    /\ pc \in {"assert", "archive"} => active /\ receipt = "restored"

\* The snapshots: checked before they are synced, synced before "prepared".
SnapshotInv ==
    /\ pc \in {"sync", "recheck", "publish"} => SnapshotsMatch
    /\ pc \in {"recheck", "publish"} => synced
    /\ InForce => synced /\ SnapshotsMatch

\* The live components outside a restore: nothing is written before the
\* journal can no longer disappear.
QuietInv ==
    /\ ~InForce => disk = target
    /\ pc \in Preparing => IntactUnlessTouched(Components)
    /\ InForce /\ ~linked => IntactUnlessTouched(Components)
    /\ ~linked /\ pc \in Restoring \ {"compare", "flush"} => cur \in touched

\* The live components in a restore: components above the cursor are done.
ProgressInv ==
    /\ pc \in Restoring =>
          LET done == {c \in Components : c > cur} IN
          Durable(done) /\ IntactUnlessTouched(done)
    /\ pc = "flush" => cur \in touched \/ target[cur] = original[cur]
    /\ pc = "restored" \/ receipt = "restored" =>
          Durable(Components) /\ IntactUnlessTouched(Components)

\* What an untouched component holds can always be recognised.
RecognisedInv ==
    InForce =>
        \A c \in Components \ touched :
            /\ Owned(target[c], original[c], Payload[c])
            /\ Owned(disk[c], original[c], Payload[c])

\* Once the restore has checked a component, only later edits of a third party
\* can make an entry unrecognisable.
Checked(S) ==
    \A c \in S, n \in Names :
        Unrecognised(target[c], n, original[c], Payload[c]) => <<c, n>> \in late

CheckedInv ==
    /\ pc = "owned" => Checked({c \in Components : c < cur})
    /\ pc \in Restoring \union {"pending"} => Checked(Components)
    /\ pc = "archive" =>
          \A c \in Components, n \in Names :
              target[c].file[n] # original[c].file[n] => <<c, n>> \in late

IInv ==
    JournalInv /\ SnapshotInv /\ QuietInv /\ ProgressInv /\ RecognisedInv /\ CheckedInv

\* A component that is not there has no files.
Whole(t) == Exists(t) \/ t = NoTree

\* What the restore has made so far of the component it is at, unless a third
\* party edited it: nothing is there that its next step would trip over.
RebuildInv ==
    /\ \A c \in Components : Whole(target[c]) /\ Whole(original[c])
    /\ pc \in {"cp", "copytree"} => Exists(target[cur])
    /\ pc \in {"mkdirs", "copytree"} => Exists(original[cur])
    /\ cur \notin touched =>
          /\ pc = "rmtree" => todo = Present(target[cur])
          /\ pc = "mkdirs" => target[cur] = NoTree
          /\ pc = "copytree" =>
                \A n \in Names \ todo : target[cur].file[n] = original[cur].file[n]
          /\ pc = "readback" => target[cur] = original[cur]
=============================================================================
