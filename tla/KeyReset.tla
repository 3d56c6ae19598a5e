------------------------------ MODULE KeyReset ------------------------------
(***************************************************************************)
(* The key handler and the NV driver together: the main loop calls          *)
(* app_key_handler, which runs nv_resetToFactoryNew to the end and resets   *)
(* the chip.  While the NV driver erases, no key is scanned; after a power  *)
(* failure the driver's flag finishes the reset and the key handler starts  *)
(* from nothing.  Keys moved and time passed while the driver erases are    *)
(* taken to happen right after, before the next scan could tell.            *)
(***************************************************************************)
EXTENDS NvReset

CONSTANTS KeySet, Hold, ReleaseCnt

VARIABLES down, pre, last, release_cnt, app, valid, elapsed,
          keyPressed, age

K == INSTANCE Keys

\* The code has ReleaseCnt = 6; the debounce filter needs three scans.
ASSUME KeyResetAssumption ==
  KeySet \subseteq 1 .. 4 /\ Hold \in Nat \ {0} /\ ReleaseCnt \in Nat \ (0 .. 2)

keyVars == <<down, pre, last, release_cnt, app, valid, elapsed,
             keyPressed, age>>
allVars == <<vars, keyVars>>

KRInit == Init /\ K!Init

\* app_key_handler with SW1 held long enough.
KeyFactoryReset == pc = "run" /\ K!StartReset /\ FactoryStart

\* app_key_handler otherwise.
KeyLoop == pc = "run" /\ K!Loop /\ UNCHANGED vars

\* A reset that ends: nv_resetModule returns to its caller; after
\* nv_resetToFactoryNew buttonKeepPressed resets the chip.
ResetEnds ==
  /\ ResetDone
  /\ IF pc = "factory" THEN K!Restart ELSE UNCHANGED keyVars

\* What the NV driver does by itself once it is called or powered on.
NvWorks ==
  \/ ResetEnds
  \/ (EraseUnit \/ Boot \/ (pc = "boot" /\ FactoryStart)) /\ UNCHANGED keyVars

KRNext ==
  \/ KeyFactoryReset \/ KeyLoop \/ NvWorks
  \/ Crash /\ K!Restart
  \/ /\ \/ \E id \in Modules, s \in {0, 1} : Write(id, s) \/ Move(id, s)
        \/ \E id \in Modules : ResetModule(id)
     /\ UNCHANGED keyVars
  \/ /\ pc = "run"
     /\ \/ \E k \in KeySet : K!Touch(k)
        \/ K!Tick
     /\ UNCHANGED vars

KRSpec == KRInit /\ [][KRNext]_allVars /\ WF_allVars(NvWorks)

\* The user's intent: the application starts a factory reset only when SW1 was
\* seen down and some key has been held ever since, for the hold time.
ResetOnlyHeld ==
  [][pc = "run" /\ pc' = "factory" => age >= Hold]_allVars

\* A key reported down is reported up before kb_key_pressed stops the scan: the
\* release counter outlasts the debounce filter, however the contacts bounce.
ReleaseSeen == K!ReleaseSeen
=============================================================================
