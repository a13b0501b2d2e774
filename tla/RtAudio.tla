------------------------------ MODULE RtAudio ------------------------------
(***************************************************************************)
(* demo_rt_audio_host and demo_rt_audio_service: two instances render into *)
(* their own ring and read their own shared state, which the host writes;  *)
(* the host kills the primary and goes on with the standby.  The segments  *)
(* of a killed instance stay, and the instance respawned under its name    *)
(* finds them as they were.  The rings are ShmRings, written with          *)
(* write_overwrite and read with read, one access to the ring a step.  The *)
(* counters of blocks and underruns, which are only printed, are left out. *)
(***************************************************************************)
EXTENDS Integers, Sequences

CONSTANTS MaxBlocks,   \* bound: blocks an instance's process renders
          N            \* blocks a ring holds

VARIABLES up,     \* instances whose process runs
          state,  \* each instance's SharedState
          ring,   \* each instance's ring: write_idx, read_idx, slots
          svc,    \* each process's render loop
          host,   \* the host: its step, its primary, where its read is
          heard,  \* the last two blocks the host has read since it connected
          met     \* ghost: instances that moved read_idx on during a read of it

vars == <<up, state, ring, svc, host, heard, met>>

Insts == {1, 2}
Standby == 3 - host.at
Fresh == [pc |-> "top", seq |-> 0, w |-> 0, r |-> 0, blk |-> <<>>]
Blank == [fpb |-> 0, active |-> FALSE, gain |-> 0]
NoBlock == [seq |-> -1, fpb |-> 0, gain |-> 0]
Empty == [w |-> 0, r |-> 0, slots |-> [k \in 0 .. N - 1 |-> NoBlock]]

\* The main of the host, one entry per step; "play" consumes blocks.
Script == <<"connect", "configure", "activate", "replicate", "play", "gain", "share", "play",
            "failover", "connect", "activate", "replicate", "play", "stop">>

Init == /\ up = Insts
        /\ state = [i \in Insts |-> Blank]
        /\ ring = [i \in Insts |-> Empty]
        /\ svc = [i \in Insts |-> Fresh]
        /\ host = [step |-> 1, at |-> 1, pc |-> "idle", r |-> 0, seq |-> 0]
        /\ heard = <<>> /\ met = {}

Does(s) == host.pc = "idle" /\ host.step <= Len(Script) /\ Script[host.step] = s
Proceed == host' = [host EXCEPT !.step = @ + 1]
Quit == host' = [host EXCEPT !.step = Len(Script) + 1]

-----------------------------------------------------------------------------
(* The host.                                                               *)

\* InstanceConn::connect; the ring may hold blocks from before.
Connect == /\ Does("connect") /\ Proceed /\ heard' = <<>>
           /\ UNCHANGED <<up, state, ring, svc, met>>

\* configure_stream stores rate, channels and frames, and then stream_active.
Configure == /\ Does("configure") /\ Proceed
             /\ state' = [state EXCEPT ![host.at].fpb = 256]
             /\ UNCHANGED <<up, ring, svc, heard, met>>

Activate == /\ Does("activate") /\ Proceed
            /\ state' = [state EXCEPT ![host.at].active = TRUE]
            /\ UNCHANGED <<up, ring, svc, heard, met>>

\* Configuration and parameters of the primary, to the standby's segment
\* (which is created by open_state if it is gone).  After the failover a
\* standby that is dead again is left out.
Replicate == /\ Does("replicate") /\ Proceed
             /\ \/ state' = [state EXCEPT ![Standby].fpb = 256,
                                          ![Standby].gain = state[host.at].gain]
                \/ host.step > 8 /\ Standby \notin up /\ UNCHANGED state
             /\ UNCHANGED <<up, ring, svc, heard, met>>

\* One turn of a consuming loop that finds a block: read_slot,
ReadLoad ==
  /\ Does("play") /\ ring[host.at].r < ring[host.at].w
  /\ host' = [host EXCEPT !.pc = "copy", !.r = ring[host.at].r]
  /\ UNCHANGED <<up, state, ring, svc, heard, met>>

\* What a field of a slot may read as: while the writer copies its block there,
\* also as the new value.
Seen(i, n) == {ring[i].slots[n % N]}
              \cup (IF svc[i].pc = "fill" /\ svc[i].w % N = n % N THEN {svc[i].blk} ELSE {})

\* the copy of the block, its number and then the rest,
ReadSeq ==
  /\ host.pc = "copy"
  /\ \E b \in Seen(host.at, host.r) : host' = [host EXCEPT !.pc = "rest", !.seq = b.seq]
  /\ UNCHANGED <<up, state, ring, svc, heard, met>>

LastTwo(s) == IF Len(s) > 2 THEN Tail(s) ELSE s

ReadRest ==
  /\ host.pc = "rest"
  /\ \E b, c \in Seen(host.at, host.r) :
       heard' = LastTwo(Append(heard, [seq |-> host.seq, fpb |-> b.fpb, gain |-> c.gain]))
  /\ host' = [host EXCEPT !.pc = "commit", !.seq = 0]
  /\ UNCHANGED <<up, state, ring, svc, met>>

\* read_commit.
ReadCommit ==
  /\ host.pc = "commit" /\ ring' = [ring EXCEPT ![host.at].r = @ + 1]
  /\ host' = [host EXCEPT !.pc = "idle", !.r = 0]
  /\ UNCHANGED <<up, state, svc, heard, met>>

\* The deadline of the timed loops; the other needs all its blocks.
Played == /\ Does("play") /\ (host.step = 8 => heard # <<>>) /\ Proceed
          /\ UNCHANGED <<up, state, ring, svc, heard, met>>

SetGain == /\ Does("gain") /\ Proceed
           /\ state' = [state EXCEPT ![host.at].gain = 50]
           /\ UNCHANGED <<up, ring, svc, heard, met>>

\* Seeded fault: the new gain stays with the primary.
ShareGain_Not == Does("share") /\ Proceed /\ UNCHANGED <<up, state, ring, svc, heard, met>>

ShareGain == /\ Does("share") /\ Proceed
             /\ state' = [state EXCEPT ![Standby].gain = 50]
             /\ UNCHANGED <<up, ring, svc, heard, met>>

\* force_failover: kill the primary, promote the standby, respawn the other
\* one under its name.  A standby that has crashed is promoted too where its
\* zombie counts as alive; elsewhere the host finds no primary and exits.
Failover ==
  /\ Does("failover")
  /\ \/ /\ host' = [host EXCEPT !.step = @ + 1, !.at = Standby]
        /\ svc' = [svc EXCEPT ![host.at] = Fresh] /\ up' = up \cup {host.at}
     \/ Standby \notin up /\ Quit /\ up' = up \ {host.at} /\ UNCHANGED svc
  /\ UNCHANGED <<state, ring, heard, met>>

\* Deactivate, stop the group, remove the segments.
Stop == /\ Does("stop") /\ Proceed /\ up' = {}
        /\ state' = [i \in Insts |-> Blank] /\ ring' = [i \in Insts |-> Empty]
        /\ UNCHANGED <<svc, heard, met>>

-----------------------------------------------------------------------------
(* The render loop of an instance.                                         *)

At(i, l) == i \in up /\ svc[i].pc = l
Goto(i, l) == svc' = [svc EXCEPT ![i].pc = l]

\* Nothing to render while the stream is inactive or has no configuration.
Poll(i) == /\ At(i, "top") /\ svc[i].seq < MaxBlocks
           /\ state[i].active /\ state[i].fpb # 0
           /\ Goto(i, "render")
           /\ UNCHANGED <<up, state, ring, host, heard, met>>

\* render_audio reads the state again; write_overwrite loads both indices,
Render(i) ==
  LET full == ring[i].w - ring[i].r >= N
  IN /\ At(i, "render")
     /\ svc' = [svc EXCEPT ![i] =
                  [pc |-> IF full THEN "bump" ELSE "fill", seq |-> @.seq,
                   w |-> ring[i].w, r |-> ring[i].r,
                   blk |-> [seq |-> @.seq, fpb |-> state[i].fpb, gain |-> state[i].gain]]]
     /\ UNCHANGED <<up, state, ring, host, heard, met>>

\* Seeded fault: a full ring is written without dropping its oldest block.
Bump_Not(i) ==
  At(i, "bump") /\ Goto(i, "fill") /\ UNCHANGED <<up, state, ring, host, heard, met>>

\* drops the oldest block of a full ring, the host reading it or not,
Bump(i) ==
  /\ At(i, "bump") /\ Goto(i, "fill")
  /\ ring' = [ring EXCEPT ![i].r = svc[i].r + 1]
  /\ met' = IF ring[i].r # svc[i].r \/ (host.at = i /\ host.pc # "idle")
            THEN met \cup {i} ELSE met
  /\ UNCHANGED <<up, state, host, heard>>

\* copies the block to its slot,
Fill(i) ==
  /\ At(i, "fill") /\ Goto(i, "publish")
  /\ ring' = [ring EXCEPT ![i].slots[svc[i].w % N] = svc[i].blk]
  /\ UNCHANGED <<up, state, host, heard, met>>

\* and publishes it.
Publish(i) ==
  /\ At(i, "publish")
  /\ ring' = [ring EXCEPT ![i].w = @ + 1]
  /\ svc' = [svc EXCEPT ![i] = [Fresh EXCEPT !.seq = svc[i].seq + 1]]
  /\ UNCHANGED <<up, state, host, heard, met>>

Crash(i) == /\ i \in up /\ up' = up \ {i}
            /\ UNCHANGED <<state, ring, svc, host, heard, met>>

\* With the primary gone the loop for a hundred blocks never ends.
Done == /\ \/ host.step > Len(Script)
           \/ Does("play") /\ host.step = 8 /\ ring[host.at].r >= ring[host.at].w
        /\ UNCHANGED vars

Host == \/ Connect \/ Configure \/ Activate \/ Replicate \/ ReadLoad \/ ReadSeq
        \/ ReadRest \/ ReadCommit \/ Played \/ SetGain \/ ShareGain
        \/ Failover \/ Stop
Next == Host \/ (\E i \in Insts : Poll(i) \/ Render(i) \/ Bump(i) \/ Fill(i) \/ Publish(i)
                                \/ Crash(i))
        \/ Done

Spec == Init /\ [][Next]_vars

-----------------------------------------------------------------------------
\* The standby is warm: what the host hears from the new primary was rendered
\* with the configuration and the gain it had set on the old one, even a block
\* that was overwritten while it was read.  A connection's blocks come in the
\* order they were rendered, each once, also from a ring that filled up, unless
\* the writer dropped a block during a read (`met`): read may then return a
\* block twice, late, or half of one and half of the next.
RtWarm ==
  ~Does("connect") =>
    \A k \in 1 .. Len(heard) :
      /\ heard[k].fpb = 256
      /\ host.at = 2 => heard[k].gain = 50
      /\ k > 1 /\ host.at \notin met => heard[k].seq > heard[k - 1].seq
=============================================================================
