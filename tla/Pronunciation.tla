--------------------------- MODULE Pronunciation ---------------------------
(***************************************************************************)
(* GET /api/pronunciation/audio: app/routers/language.py over              *)
(* app/services/piper_service.py.                                          *)
(*                                                                         *)
(* The endpoint looks for the WAV file of a text and voice without taking  *)
(* a slot; if it is missing, it enters the TTS slot (ResourceSlot) and     *)
(* synthesises it in a worker thread: under a lock per clip, through a     *)
(* temporary file that replaces the final one.  Whoever finds or makes a   *)
(* clip prunes the cache before it returns, with no lock at all, so the    *)
(* threads of several requests list, stat and delete the same files.       *)
(***************************************************************************)
EXTENDS ResourceSlot, Sequences

CONSTANTS
    Keys,        \* the clips: sha256 of normalised text and voice
    KeyOf,       \* the clip each client asks for
    MaxClips,    \* settings.piper_cache_max_bytes, in clips of one size
    MaxLocks,    \* 4096: locks kept in _cache_locks
    None

ASSUME PronunciationAssumption ==
    /\ KeyOf \in [Clients -> Keys]
    /\ MaxClips \in Nat \ {0}
    /\ MaxLocks \in Nat
    /\ None \notin Clients \cup Keys
    /\ Clients \cap Keys = {}

VARIABLES
    files,     \* what each name holds: the clips' .wav, the clients' .tmp
    age,       \* the clips on disk, oldest st_mtime first
    stale,     \* clips older than piper_cache_max_age_days
    registry,  \* _cache_locks: a lock is named by the client that made it
    heldBy,    \* who holds each lock
    lock,      \* the lock a client was handed
    voice,     \* "absent", "loading" or "loaded": _voice_cache
    loads,     \* loads of the voice that run or have succeeded
    dropped,   \* history: clips whose lock _prune_lock_registry removed
    stage,     \* how far each client's request is
    todo       \* the WAV files a pruning thread has listed and not yet looked at

ttsVars == <<files, age, stale, registry, heldBy, lock, voice, loads, dropped, stage, todo>>
allVars == <<slotVars, ttsVars>>

\* A client's temporary file is named for the client.
Names == Keys \cup Clients
Ended == {"served", "refused", "broken"}
Making == {"write", "close", "replace"}

TtsInit ==
    /\ SlotInit
    /\ files = [n \in Names |-> "absent"]
    /\ age = <<>>
    /\ stale = {}
    /\ registry = [k \in Keys |-> None]
    /\ heldBy = [c \in Clients |-> None]
    /\ lock = [c \in Clients |-> None]
    /\ voice = "absent"
    /\ loads = 0
    /\ dropped = {}
    /\ stage = [c \in Clients |-> "arrive"]
    /\ todo = [c \in Clients |-> {}]

-----------------------------------------------------------------------------
(* Helpers.                                                                *)

Go(c, label) == stage' = [stage EXCEPT ![c] = label]

OnDisk(k) == files[k] # "absent"

\* unlink(missing_ok=True)
Unlink(n) ==
    /\ files' = [files EXCEPT ![n] = "absent"]
    /\ age' = SelectSeq(age, LAMBDA k : k # n)
    /\ stale' = stale \ {n}

DiskUnchanged == UNCHANGED <<files, age, stale>>
LocksUnchanged == UNCHANGED <<registry, heldBy, lock, dropped>>
VoiceUnchanged == UNCHANGED <<voice, loads>>

\* Mutant: the clip is written in place.
FinalName(c) == KeyOf[c]

\* `.{key}.{uuid4}.tmp`: no two threads write the same file.
TempName(c) == c

-----------------------------------------------------------------------------
(* The endpoint.                                                           *)

\* Rate limit, daily quota and the checks of text and voice let the client in,
\* or answer 429 or 503.
Arrive(c) ==
    /\ stage[c] = "arrive"
    /\ \/ Go(c, "find")
       \/ Go(c, "refused")
    /\ UNCHANGED <<slotVars, todo>>
    /\ DiskUnchanged /\ LocksUnchanged /\ VoiceUnchanged

\* get_cached_audio: `cache_path.is_file()`, before the slot and again inside it.
\* A clip that is missing sends the endpoint to the slot, the worker to the lock.
Find(c) ==
    /\ stage[c] = "find"
    /\ Go(c, IF OnDisk(KeyOf[c]) THEN "stat"
               ELSE IF slotState[c] = "inside" THEN "getlock" ELSE "slot")
    /\ UNCHANGED <<slotVars, todo>>
    /\ DiskUnchanged /\ LocksUnchanged /\ VoiceUnchanged

\* `cache_path.stat()` of the clip just found raises FileNotFoundError when it is
\* gone by now: no PronunciationError, so the answer is a 500.
StatFound(c) ==
    /\ stage[c] = "stat"
    /\ Go(c, IF OnDisk(KeyOf[c]) THEN "list" ELSE "fail")
    /\ UNCHANGED <<slotVars, todo>>
    /\ DiskUnchanged /\ LocksUnchanged /\ VoiceUnchanged

\* async_resource_slot("tts"), whose steps are ResourceSlot's.
EnterSlot(c) ==
    /\ stage[c] = "slot"
    /\ EnterAtOnce(c) \/ EnterAfterWait(c)
    /\ Go(c, "find")
    /\ UNCHANGED todo
    /\ DiskUnchanged /\ LocksUnchanged /\ VoiceUnchanged

QueueForSlot(c) ==
    /\ stage[c] = "slot"
    /\ StartWaiting(c)
    /\ UNCHANGED ttsVars

\* 503: the queue is full, or the time in it is up.
TurnedAway(c) ==
    /\ stage[c] = "slot"
    /\ QueueFull(c) \/ WaitTimeout(c)
    /\ Go(c, "refused")
    /\ UNCHANGED todo
    /\ DiskUnchanged /\ LocksUnchanged /\ VoiceUnchanged

\* The path is known: the slot is left, if there was one, and the file is sent.
\* FileResponse stats it first and raises when it is gone.
Serve(c) ==
    /\ stage[c] = "serve"
    /\ IF slotState[c] = "inside" THEN Leave(c) /\ UNCHANGED stage
       ELSE /\ Go(c, IF OnDisk(KeyOf[c]) THEN "served" ELSE "broken")
            /\ UNCHANGED slotVars
    /\ UNCHANGED todo
    /\ DiskUnchanged /\ LocksUnchanged /\ VoiceUnchanged

\* An exception on its way out leaves the slot: "refuse" is a PronunciationError,
\* which becomes a 503, "fail" any other.
GiveUp(c) ==
    /\ stage[c] \in {"refuse", "fail"}
    /\ IF slotState[c] = "inside" THEN Leave(c) ELSE UNCHANGED slotVars
    /\ Go(c, IF stage[c] = "refuse" THEN "refused" ELSE "broken")
    /\ UNCHANGED todo
    /\ DiskUnchanged /\ LocksUnchanged /\ VoiceUnchanged

-----------------------------------------------------------------------------
(* The worker thread.                                                      *)

\* Mutant: a lock is made without looking for the one that exists.
NewLock(c) ==
    /\ stage[c] = "getlock"
    /\ registry' = [registry EXCEPT ![KeyOf[c]] = c]
    /\ lock' = [lock EXCEPT ![c] = c]
    /\ Go(c, "lock")
    /\ UNCHANGED <<slotVars, heldBy, dropped, todo>>
    /\ DiskUnchanged /\ VoiceUnchanged

\* _get_cache_lock, under _cache_locks_guard.
GetLock(c) ==
    LET k == KeyOf[c]
        l == IF registry[k] = None THEN c ELSE registry[k]
    IN  /\ stage[c] = "getlock"
        /\ registry' = [registry EXCEPT ![k] = l]
        /\ lock' = [lock EXCEPT ![c] = l]
        /\ Go(c, "lock")
        /\ UNCHANGED <<slotVars, heldBy, dropped, todo>>
        /\ DiskUnchanged /\ VoiceUnchanged

\* `with lock:`, and the clip is looked for once more.  (The branch that finds it
\* returns it without pruning.)
TakeLock(c) ==
    /\ stage[c] = "lock"
    /\ heldBy[lock[c]] = None
    /\ heldBy' = [heldBy EXCEPT ![lock[c]] = c]
    /\ Go(c, IF OnDisk(KeyOf[c]) THEN "unlock" ELSE "voice")
    /\ UNCHANGED <<slotVars, registry, lock, dropped, todo>>
    /\ DiskUnchanged /\ VoiceUnchanged

\* _load_voice: a look at _voice_cache, and another under _voice_cache_lock
\* before the model is loaded.
UseVoice(c) ==
    /\ stage[c] = "voice"
    /\ \/ voice = "loaded" /\ Go(c, "write") /\ VoiceUnchanged
       \/ voice = "absent" /\ Go(c, "load") /\ VoiceUnchanged
       \/ voice = "loading" /\ Go(c, "load") /\ VoiceUnchanged
    /\ UNCHANGED <<slotVars, todo>>
    /\ DiskUnchanged /\ LocksUnchanged

\* Mutant: no second look under the lock.
LoadUnchecked(c) ==
    /\ stage[c] = "load"
    /\ voice # "loading"
    /\ voice' = "loading" /\ loads' = loads + 1 /\ Go(c, "loading")
    /\ UNCHANGED <<slotVars, todo>>
    /\ DiskUnchanged /\ LocksUnchanged

LockVoice(c) ==
    /\ stage[c] = "load"
    /\ \/ voice = "loaded" /\ Go(c, "write") /\ VoiceUnchanged
       \/ voice = "absent" /\ voice' = "loading" /\ loads' = loads + 1 /\ Go(c, "loading")
    /\ UNCHANGED <<slotVars, todo>>
    /\ DiskUnchanged /\ LocksUnchanged

\* PiperVoice.load succeeds, or fails with the assets missing: the lock of the clip
\* is let go with the exception.
LoadVoice(c) ==
    /\ stage[c] = "loading"
    /\ \/ voice' = "loaded" /\ Go(c, "write") /\ UNCHANGED <<heldBy, loads>>
       \/ /\ voice' = "absent"
          /\ loads' = loads - 1
          /\ heldBy' = [heldBy EXCEPT ![lock[c]] = None]
          /\ Go(c, "refuse")
    /\ UNCHANGED <<slotVars, registry, lock, dropped, todo>>
    /\ DiskUnchanged

\* wave.open creates the temporary file, synthesize_wav fills it.
Write(c) ==
    /\ stage[c] = "write"
    /\ files' = [files EXCEPT ![TempName(c)] = "partial"]
    /\ Go(c, "close")
    /\ UNCHANGED <<slotVars, age, stale, todo>>
    /\ LocksUnchanged /\ VoiceUnchanged

\* Mutant: a synthesis that fails keeps the lock of the clip.
CloseKeepingLock(c) ==
    /\ stage[c] = "close"
    /\ \/ /\ files' = [files EXCEPT ![TempName(c)] = "whole"]
          /\ Go(c, "replace")
       \/ /\ files' = [files EXCEPT ![TempName(c)] = "absent"]
          /\ Go(c, "refuse")
    /\ UNCHANGED <<slotVars, age, stale, todo>>
    /\ LocksUnchanged /\ VoiceUnchanged

\* The file is closed, or Piper fails and the temporary file is removed.
Close(c) ==
    /\ stage[c] = "close"
    /\ \/ /\ files' = [files EXCEPT ![TempName(c)] = "whole"]
          /\ Go(c, "replace")
          /\ UNCHANGED heldBy
       \/ /\ files' = [files EXCEPT ![TempName(c)] = "absent"]
          /\ heldBy' = [heldBy EXCEPT ![lock[c]] = None]
          /\ Go(c, "refuse")
    /\ UNCHANGED <<slotVars, age, stale, registry, lock, dropped, todo>>
    /\ VoiceUnchanged

\* os.replace: the clip appears, or is replaced, at once.
Replace(c) ==
    LET k == KeyOf[c] IN
    /\ stage[c] = "replace"
    /\ files' = [files EXCEPT ![TempName(c)] = "absent", ![k] = files[TempName(c)]]
    /\ age' = Append(SelectSeq(age, LAMBDA x : x # k), k)
    /\ stale' = stale \ {k}
    /\ Go(c, "inspect")
    /\ UNCHANGED <<slotVars, todo>>
    /\ LocksUnchanged /\ VoiceUnchanged

\* The size is logged: is_file() and stat(), still inside the `try`, so a clip that
\* is deleted between the two makes a PronunciationError.  Then the lock is let go.
Inspect(c) ==
    /\ stage[c] = "inspect"
    /\ heldBy' = [heldBy EXCEPT ![lock[c]] = None]
    /\ \/ Go(c, "list")
       \/ ~OnDisk(KeyOf[c]) /\ Go(c, "refuse")
    /\ UNCHANGED <<slotVars, registry, lock, dropped, todo>>
    /\ DiskUnchanged /\ VoiceUnchanged

Unlock(c) ==
    /\ stage[c] = "unlock"
    /\ heldBy' = [heldBy EXCEPT ![lock[c]] = None]
    /\ Go(c, "serve")
    /\ UNCHANGED <<slotVars, registry, lock, dropped, todo>>
    /\ DiskUnchanged /\ VoiceUnchanged

-----------------------------------------------------------------------------
(* prune_audio_cache(protected_path=<the client's clip>), in the thread of a   *)
(* client that found or made its clip.                                         *)

\* Mutant: the client's own clip is not protected.
Unprotected(c) == {k \in Keys : OnDisk(k)}

\* cache_dir.glob("*.wav"), which matches no temporary file.
Prunable(c) == {k \in Keys : OnDisk(k) /\ k # KeyOf[c]}

List(c) ==
    /\ stage[c] = "list"
    /\ todo' = [todo EXCEPT ![c] = Prunable(c)]
    /\ Go(c, "byage")
    /\ UNCHANGED slotVars
    /\ DiskUnchanged /\ LocksUnchanged /\ VoiceUnchanged

\* One pass of the loop over the listed files: stat() of a file that another
\* thread deleted meanwhile raises, an expired file is deleted.
PruneExpired(c) ==
    /\ stage[c] = "byage"
    /\ \E k \in todo[c] :
        \/ /\ ~OnDisk(k)
           /\ Go(c, "fail")
           /\ UNCHANGED todo
           /\ DiskUnchanged
        \/ /\ k \in stale
           /\ Unlink(k)
           /\ todo' = [todo EXCEPT ![c] = @ \ {k}]
           /\ UNCHANGED stage
    /\ UNCHANGED slotVars
    /\ LocksUnchanged /\ VoiceUnchanged

Younger(k, l) == \E i, j \in DOMAIN age : i < j /\ age[i] = l /\ age[j] = k

\* No listed file is expired: the sizes are added up, and what is too much is
\* deleted, oldest first, until the younger ones fit.  The protected clip is not in
\* the sum.
PruneBySize(c) ==
    LET victims == {k \in todo[c] : Cardinality({l \in todo[c] : Younger(l, k)}) >= MaxClips}
    IN  /\ stage[c] = "byage"
        /\ todo[c] \cap stale = {}
        /\ IF \E k \in todo[c] : ~OnDisk(k)
           THEN Go(c, "fail") /\ DiskUnchanged
           ELSE /\ files' = [n \in Names |-> IF n \in victims THEN "absent" ELSE files[n]]
                /\ age' = SelectSeq(age, LAMBDA k : k \notin victims)
                /\ Go(c, "locks")
                /\ UNCHANGED stale
        /\ UNCHANGED <<slotVars, todo>>
        /\ LocksUnchanged /\ VoiceUnchanged

\* _prune_lock_registry: beyond MaxLocks the locks nobody holds are dropped, those
\* included that were handed out and not yet taken.
PruneLocks(c) ==
    LET kept == {k \in Keys : registry[k] # None}
        free == {k \in kept : heldBy[registry[k]] = None}
        excess == Cardinality(kept) - MaxLocks
    IN  /\ stage[c] = "locks"
        /\ \E gone \in SUBSET free :
            /\ IF excess <= 0 THEN gone = {}
               ELSE \/ Cardinality(gone) = excess
                    \/ gone = free /\ Cardinality(free) <= excess
            /\ registry' = [k \in Keys |-> IF k \in gone THEN None ELSE registry[k]]
            /\ dropped' = dropped \cup gone
        /\ todo' = [todo EXCEPT ![c] = {}]
        /\ Go(c, "serve")
        /\ UNCHANGED <<slotVars, heldBy, lock>>
        /\ DiskUnchanged /\ VoiceUnchanged

-----------------------------------------------------------------------------
(* The surroundings.                                                       *)

\* A clip on disk passes piper_cache_max_age_days; older clips have passed it.
Expire(k) ==
    /\ OnDisk(k)
    /\ k \notin stale
    /\ \A i \in 1..Len(age) : age[i] = k => \A j \in 1..(i - 1) : age[j] \in stale
    /\ stale' = stale \cup {k}
    /\ UNCHANGED <<slotVars, files, age, stage, todo>>
    /\ LocksUnchanged /\ VoiceUnchanged

Endpoint(c) == Find(c) \/ StatFound(c) \/ EnterSlot(c) \/ QueueForSlot(c) \/ TurnedAway(c) \/ Serve(c) \/ GiveUp(c)
Worker(c) == GetLock(c) \/ TakeLock(c) \/ UseVoice(c) \/ LockVoice(c) \/ LoadVoice(c) \/ Write(c)
    \/ Close(c) \/ Replace(c) \/ Inspect(c) \/ Unlock(c)
Pruning(c) == List(c) \/ PruneExpired(c) \/ PruneBySize(c) \/ PruneLocks(c)

TtsNextOf(some) ==
    \/ \E c \in some : Arrive(c) \/ Endpoint(c) \/ Worker(c) \/ Pruning(c)
    \/ \E k \in Keys : Expire(k)

TtsNext == TtsNextOf(Clients)

TtsSpec == TtsInit /\ [][TtsNext]_allVars

\* Threads and event loop keep running; nobody has to send a request.
TtsFairSpec == TtsSpec /\ \A c \in Clients : WF_allVars(Endpoint(c) \/ Worker(c) \/ Pruning(c))

-----------------------------------------------------------------------------
(* Properties.                                                             *)

\* Whatever threads write and prune at whatever moment, and whether Piper fails, a file under the name
\* of a clip holds the whole clip, so nobody is sent a part of one.
OnlyWholeClips == \A k \in Keys : files[k] # "partial"

\* No work is done twice at a time: a clip is synthesised by two threads only after
\* the registry dropped its lock, and a voice is loaded once per process.
NoDoubleWork ==
    /\ loads <= 1
    /\ \A c, d \in Clients :
        c # d /\ KeyOf[c] = KeyOf[d] /\ stage[c] \in Making /\ stage[d] \in Making => KeyOf[c] \in dropped

\* The pruning of a client never deletes the clip that client is about to be sent,
\* however the clip came to be on disk and whoever replaced it meanwhile.
PruningSparesOwn ==
    [][\A c \in Clients :
        stage[c] = "byage" /\ (stage'[c] # stage[c] \/ todo'[c] # todo[c]) /\ OnDisk(KeyOf[c]) =>
            files'[KeyOf[c]] = files[KeyOf[c]]]_allVars

\* Every request that was let in is answered: neither the lock of a clip nor the
\* lock of the voices nor the slot is ever kept by a thread that failed.
EveryClipRequestEnds == <>[](\A c \in Clients : stage[c] \in Ended \cup {"arrive"})

=============================================================================
