---------------------------- MODULE TouchSelection ----------------------------
(***************************************************************************)
(* How an operation finds its authenticator                                *)
(* (fido-key-wrap-libfido2/src/native.rs, driven by select and             *)
(* select_managed of fido-key-wrap/src/backend.rs).                        *)
(*                                                                         *)
(* The connected authenticators are listed and opened, those whose         *)
(* features fit the request are kept, and if several are left the user is  *)
(* prompted and touches one.  Every device is then asked for a touch and   *)
(* polled in turn until one answers or the deadline passes.                *)
(*                                                                         *)
(* Time is counted in ticks and passes only while a native call blocks.    *)
(* A poll without a touch blocks until its timeout.                        *)
(***************************************************************************)
EXTENDS Integers, Sequences

CONSTANTS
    Situations,         \* connected devices and what one is wanted for
    SelectionTimeout,   \* ticks for the selection
    OperationTimeout,   \* the timeout of every other native call
    Poll,               \* ticks of one poll
    Unset               \* no device, no time

ASSUME TimeAssumption ==
    /\ {SelectionTimeout, OperationTimeout, Poll} \subseteq Nat \ {0}
    /\ Unset \notin Nat

VARIABLES
    features,   \* features[d]: what the connected device d reports
    request,    \* the operation and policy a device is wanted for
    stage,      \* where the selection is
    devices,    \* the open devices that fit, in the order they are polled
    next,       \* the position in devices to ask or poll next
    now,        \* the clock
    deadline,   \* when the selection ends
    until,      \* when the running poll ends
    timeout,    \* timeout[d]: the timeout set on the handle of d
    asking,     \* devices with a touch request of ours
    touched,    \* touched[d]: when the user touched d, which was asking
    prompted,   \* the user was told to choose by touch
    selected,   \* the device that was selected
    outcome,    \* how the operation ended
    \* history variable, read by no guard of the code
    asked       \* when all devices had been asked

handles == <<devices, timeout>>
clock == <<now, deadline, until>>
selectionVars == <<features, request, stage, handles, next, clock, asking, touched, prompted,
          selected, outcome, asked>>

-----------------------------------------------------------------------------
(***************************************************************************)
(* Capabilities.  A device is the set of features it reports.              *)
(***************************************************************************)

Feature == {"fido2", "hmacSecret", "credProtect", "residentKey", "credMgmt",
            "es256", "pinSupported", "pinConfigured", "alwaysUv"}
Policy == {"presence", "verified"}
Request == [op : {"enroll", "evaluate", "enrollManaged", "manage"}, policy : Policy]

ASSUME SituationsAssumption ==
    Situations \subseteq [features : Seq(SUBSET Feature), request : Request]

\* Capabilities::compatible
Compatible(f) ==
    {"fido2", "hmacSecret", "credProtect", "es256", "pinSupported", "pinConfigured"}
        \subseteq f

\* Mutated form: a device that always verifies is offered for presence.
FitsPolicyLax(f, policy) == Compatible(f)

\* supports_presence_policy and supports_verified_policy
FitsPolicy(f, policy) ==
    Compatible(f) /\ (policy = "presence" => "alwaysUv" \notin f)

\* supports_managed with Management
SupportsManagement(f) ==
    {"fido2", "es256", "pinSupported", "pinConfigured", "credMgmt"} \subseteq f

\* supports_managed with Enrollment
SupportsManagedEnrollment(f, policy) ==
    /\ SupportsManagement(f)
    /\ {"hmacSecret", "credProtect", "residentKey"} \subseteq f
    /\ FitsPolicy(f, policy)

\* What prepare_selection or prepare_managed_selection keeps a device for.
Supports(f, r) ==
    CASE r.op \in {"enroll", "evaluate"} -> FitsPolicy(f, r.policy)
      [] r.op = "enrollManaged" -> SupportsManagedEnrollment(f, r.policy)
      [] r.op = "manage" -> SupportsManagement(f)

\* The checks of the operation itself: those select repeats, and those of
\* validate_enrollment, evaluate and validate_managed.
Accepts(f, r) ==
    /\ r.op \in {"enroll", "enrollManaged"} => FitsPolicy(f, r.policy)
    /\ r.op = "enrollManaged" => SupportsManagedEnrollment(f, r.policy)
    /\ r.op = "evaluate" => FitsPolicy(f, r.policy)
    /\ r.op \in {"enrollManaged", "manage"} => SupportsManagement(f)
    /\ r.op \in {"evaluate", "enrollManaged"} /\ r.policy = "presence"
            => "alwaysUv" \notin f

\* Mutated form: the report does not mention that touch alone will not do.
ReportedNoPresence(f) ==
    (Feature \ (f \cup {"alwaysUv", "pinConfigured"}))
        \cup {i \in {"pinConfigured"} : "pinSupported" \in f /\ i \notin f}

\* report_for: the issues inspect_authenticators reports of a device.
Reported(f) ==
    (Feature \ (f \cup {"alwaysUv", "pinConfigured"}))
        \cup {i \in {"pinConfigured"} : "pinSupported" \in f /\ i \notin f}
        \cup (f \cap {"alwaysUv"})

-----------------------------------------------------------------------------

Lesser(a, b) == IF a < b THEN a ELSE b
Greater(a, b) == IF a < b THEN b ELSE a

Connected == DOMAIN features
Chosen == devices[next]

SelectionInit ==
    /\ \E s \in Situations : features = s.features /\ request = s.request
    /\ stage = "discover"
    /\ devices = <<>>
    /\ next = 1
    /\ now = 0 /\ deadline = Unset /\ until = 0
    /\ timeout = [d \in Connected |-> Unset]
    /\ asking = {}
    /\ touched = [d \in Connected |-> Unset]
    /\ prompted = FALSE
    /\ selected = Unset
    /\ outcome = "none"
    /\ asked = Unset

\* The devices of a set, in the order in which they were listed.
InOrder(fit) ==
    {k \in UNION {[1..n -> fit] : n \in 0..Len(features)} :
        /\ \A i, j \in DOMAIN k : i < j => k[i] < k[j]
        /\ \A d \in fit : \E i \in DOMAIN k : k[i] = d}

End(r) == stage' = "done" /\ outcome' = r

\* manifest, and the open and capabilities of every candidate, of which some
\* may fail.
Discover ==
    /\ stage = "discover"
    /\ \E failed \in SUBSET Connected :
        LET fit == {d \in Connected \ failed : Supports(features[d], request)}
        IN \E kept \in InOrder(fit) :
           /\ devices' = kept
           /\ timeout' = [d \in Connected |-> IF d \in fit THEN OperationTimeout ELSE Unset]
           /\ \/ Connected = {} /\ End("NoAuthenticators")
              \/ Connected # {} /\ kept = <<>> /\ failed # {} /\ End("Unavailable")
              \/ Connected # {} /\ kept = <<>> /\ failed = {} /\ End("NoCompatible")
              \/ Len(kept) = 1 /\ stage' = "select" /\ UNCHANGED outcome
              \/ Len(kept) > 1 /\ stage' = "prompt" /\ UNCHANGED outcome
    /\ UNCHANGED <<features, request, next, clock, asking, touched, prompted,
                   selected, asked>>

DiscoveryFails ==
    /\ stage = "discover"
    /\ End("Unavailable")
    /\ UNCHANGED <<features, request, handles, next, clock, asking, touched,
                   prompted, selected, asked>>

\* select_authenticator_by_touch of the Interaction; then select_by_touch begins.
Prompt ==
    /\ stage = "prompt"
    /\ \/ End("Interaction") /\ UNCHANGED <<deadline, prompted>>
       \/ /\ stage' = "ask"
          /\ prompted' = TRUE
          /\ deadline' = now + SelectionTimeout
          /\ UNCHANGED outcome
    /\ UNCHANGED <<features, request, handles, next, now, until, asking, touched,
                   selected, asked>>

\* PreparedSelection::select with one device.
SelectOnly ==
    /\ stage = "select"
    /\ selected' = devices[1]
    /\ stage' = "operate"
    /\ UNCHANGED <<features, request, handles, next, clock, asking, touched,
                   prompted, outcome, asked>>

\* One round of the loop that sets the remaining time and asks for a touch.
AskForTouch ==
    /\ stage = "ask"
    /\ LET remaining == deadline - now
           wait == Greater(remaining, 1)
       IN \/ /\ remaining < 0
             /\ End("TimedOut")
             /\ UNCHANGED <<timeout, next, now, asking, asked>>
          \/ /\ remaining >= 0
             /\ timeout' = [timeout EXCEPT ![Chosen] = wait]
             /\ now' \in now..(now + wait)
             /\ \/ /\ End("Transport")
                   /\ asking' = {}
                   /\ UNCHANGED <<next, asked>>
                \/ /\ asking' = asking \cup {Chosen}
                   /\ \/ /\ next < Len(devices)
                         /\ next' = next + 1
                         /\ UNCHANGED <<stage, asked>>
                      \/ /\ next = Len(devices)
                         /\ next' = 1
                         /\ stage' = "poll"
                         /\ asked' = now'
                   /\ UNCHANGED outcome
    /\ UNCHANGED <<features, request, devices, deadline, until, touched, prompted,
                   selected>>

\* Mutated form: the last poll may outlast the deadline.
StartPollWhole ==
    /\ stage = "poll"
    /\ \/ /\ now >= deadline
          /\ End("TimedOut")
          /\ asking' = {}
          /\ UNCHANGED until
       \/ /\ now < deadline
          /\ until' = now + Poll
          /\ stage' = "wait"
          /\ UNCHANGED <<asking, outcome>>
    /\ UNCHANGED <<features, request, handles, next, now, deadline, touched,
                   prompted, selected, asked>>

\* Mutated form: the deadline only shortens the polls.
StartPollForever ==
    /\ stage = "poll"
    /\ until' = now + Greater(Lesser(Poll, deadline - now), 0)
    /\ stage' = "wait"
    /\ UNCHANGED <<features, request, handles, next, now, deadline, asking, touched,
                   prompted, selected, outcome, asked>>

\* Mutated form: the requests keep blinking after a timeout.
StartPollLeaving ==
    /\ stage = "poll"
    /\ \/ /\ now >= deadline
          /\ End("TimedOut")
          /\ UNCHANGED until
       \/ /\ now < deadline
          /\ until' = now + Lesser(Poll, deadline - now)
          /\ stage' = "wait"
          /\ UNCHANGED outcome
    /\ UNCHANGED <<features, request, handles, next, now, deadline, asking, touched,
                   prompted, selected, asked>>

\* The poll of the next device starts, unless the deadline has passed.
StartPoll ==
    /\ stage = "poll"
    /\ \/ /\ now >= deadline
          /\ End("TimedOut")
          /\ asking' = {}
          /\ UNCHANGED until
       \/ /\ now < deadline
          /\ until' = now + Lesser(Poll, deadline - now)
          /\ stage' = "wait"
          /\ UNCHANGED <<asking, outcome>>
    /\ UNCHANGED <<features, request, handles, next, now, deadline, touched,
                   prompted, selected, asked>>

\* Mutated form: every poll asks the first device.
EndPollStuck ==
    /\ stage = "wait"
    /\ now = until /\ touched[Chosen] = Unset
    /\ stage' = "poll"
    /\ UNCHANGED <<features, request, handles, next, clock, asking, touched,
                   prompted, selected, outcome, asked>>

\* The poll ends without a touch, and the next device is polled.
EndPoll ==
    /\ stage = "wait"
    /\ now = until /\ touched[Chosen] = Unset
    /\ next' = (next % Len(devices)) + 1
    /\ stage' = "poll"
    /\ UNCHANGED <<features, request, handles, clock, asking, touched,
                   prompted, selected, outcome, asked>>

\* The poll fails, or answers something else than yes and no.
PollFails ==
    /\ stage = "wait"
    /\ \E r \in {"Transport", "Protocol"} : End(r)
    /\ asking' = {}
    /\ UNCHANGED <<features, request, handles, next, clock, touched, prompted,
                   selected, asked>>

\* The poll answers yes: the other requests are cancelled, and the selected
\* device gets the timeout of the operation back.
SelectTouched ==
    /\ stage = "wait"
    /\ touched[Chosen] # Unset
    /\ asking' = {}
    /\ \/ /\ timeout' = [timeout EXCEPT ![Chosen] = OperationTimeout]
          /\ stage' = "operate"
          /\ selected' = Chosen
          /\ UNCHANGED outcome
       \/ End("Transport") /\ UNCHANGED <<timeout, selected>>
    /\ UNCHANGED <<features, request, devices, next, clock, touched, prompted, asked>>

\* The operation begins on the selected device, unless it refuses.
Operate ==
    /\ stage = "operate"
    /\ End(IF Accepts(features[selected], request) THEN "Ok" ELSE "Unsupported")
    /\ UNCHANGED <<features, request, handles, next, clock, asking, touched,
                   prompted, selected, asked>>

\* A poll blocks while its device has not been touched.
Tick ==
    /\ stage = "wait" /\ now < until /\ touched[Chosen] = Unset
    /\ now' = now + 1
    /\ UNCHANGED <<features, request, stage, handles, next, deadline, until, asking,
                   touched, prompted, selected, outcome, asked>>

\* The user touches a blinking device.
Touch(d) ==
    /\ d \in asking /\ touched[d] = Unset
    /\ touched' = [touched EXCEPT ![d] = now]
    /\ UNCHANGED <<features, request, stage, handles, next, clock, asking, prompted,
                   selected, outcome, asked>>

\* A step of the calling thread, or of the clock it waits for.
Advance ==
    \/ Discover \/ DiscoveryFails \/ Prompt \/ SelectOnly \/ AskForTouch
    \/ StartPoll \/ EndPoll \/ PollFails \/ SelectTouched \/ Operate \/ Tick

SelectionNext == Advance \/ \E d \in Connected : Touch(d)

SelectionSpec == SelectionInit /\ [][SelectionNext]_selectionVars
FairSelectionSpec == SelectionSpec /\ WF_selectionVars(Advance)

-----------------------------------------------------------------------------
(***************************************************************************)
(* Properties.                                                             *)
(***************************************************************************)

Time == Nat \cup {Unset}

SelectionTypeOK ==
    /\ [features |-> features, request |-> request] \in Situations
    /\ stage \in {"discover", "select", "prompt", "ask", "poll", "wait", "operate", "done"}
    /\ devices \in Seq(Connected)
    /\ next \in 1..Greater(Len(devices), 1)
    /\ now \in Nat /\ until \in Nat
    /\ deadline \in Time /\ asked \in Time
    /\ timeout \in [Connected -> Time]
    /\ asking \subseteq Connected
    /\ touched \in [Connected -> Time]
    /\ prompted \in BOOLEAN
    /\ selected \in Connected \cup {Unset}
    /\ outcome \in {"none", "Ok", "NoAuthenticators", "Unavailable", "NoCompatible",
                   "Interaction", "Transport", "Protocol", "TimedOut", "Unsupported"}

\* The selected device is the only one that fits, or the one the user touched
\* after being told to choose; its handle has the timeout of the operation.
SelectedIsReady ==
    selected # Unset =>
        /\ Supports(features[selected], request)
        /\ Len(devices) > 1 => prompted /\ touched[selected] # Unset
        /\ timeout[selected] = OperationTimeout

\* A selection ends by its deadline, whatever the devices answer; one more tick
\* is the smallest timeout a native call takes.
SelectionIsBounded == deadline # Unset => now <= deadline + 1

\* No touch is overlooked: when a selection ends otherwise, every touch it left
\* unanswered came within one poll of each other device.
TouchIsNoticed ==
    asked # Unset /\ (outcome = "TimedOut" \/ selected # Unset) =>
        \A d \in Connected \ {selected} : touched[d] # Unset =>
            now - Greater(touched[d], asked) <= (Len(devices) - 1) * Poll

\* Once all devices have been asked, no selection leaves a request behind: a
\* device that still blinked would take a touch meant for a later operation.
NoRequestIsLeft ==
    stage \in {"operate", "done"} => asking = {} \/ (asked = Unset /\ outcome = "TimedOut")

\* What a selection leaves to the operation: the right device, ready, and no
\* other one waiting for a touch.
SelectionIsClean == SelectedIsReady /\ NoRequestIsLeft

\* A device that was selected for an operation is not refused by it for what
\* it cannot do: the checks of discovery and of the operations agree.
SelectedServes == outcome # "Unsupported"

\* What can be enrolled on a device can be recovered, and if it is managed
\* retired, on it.
EnrolledIsUsable ==
    \A d \in Connected, p \in Policy :
        Supports(features[d], [op |-> "enrollManaged", policy |-> p]) =>
            \A o \in {"evaluate", "manage"} :
                Supports(features[d], [op |-> o, policy |-> p])

\* What a device is selected or enrolled for, it can be used for, now and later.
ChosenIsUsable == SelectedServes /\ EnrolledIsUsable

\* inspect_authenticators reports no issue of exactly the devices that can serve
\* every request.
ReportIsComplete ==
    \A d \in Connected :
        Reported(features[d]) = {} <=> \A r \in Request : Supports(features[d], r)

\* Every selection ends, with a device or an error.
SelectionEnds == <>(stage = "done")
-----------------------------------------------------------------------------
(***************************************************************************)
(* The invariant behind these properties.                                  *)
(***************************************************************************)

Kept == {devices[i] : i \in DOMAIN devices}

\* The devices kept fit the request and are polled in the order they were listed.
DevicesOK ==
    /\ \A d \in Kept : Supports(features[d], request)
    /\ \A i, j \in DOMAIN devices : i < j => devices[i] < devices[j]
    /\ asking \subseteq Kept
    /\ \A d \in Connected : touched[d] # Unset => d \in Kept /\ touched[d] <= now

\* What each stage has left behind and set up.
StageOK ==
    /\ stage \in {"discover", "select", "prompt"} =>
            deadline = Unset /\ asked = Unset /\ asking = {} /\ selected = Unset
    /\ stage = "discover" => devices = <<>>
    /\ stage = "select" =>
            Len(devices) = 1 /\ \A d \in Kept : timeout[d] = OperationTimeout
    /\ stage \in {"prompt", "ask", "poll", "wait"} => Len(devices) > 1
    /\ stage \in {"ask", "poll", "wait"} =>
            deadline \in Nat /\ selected = Unset /\ prompted
    /\ stage = "ask" => asked = Unset
    /\ stage \in {"poll", "wait"} => asked \in Nat
    /\ stage = "wait" => now <= until /\ until <= deadline /\ until <= now + Poll
    /\ stage = "operate" => selected # Unset
    /\ stage # "done" => outcome = "none"
    /\ asked # Unset => asked <= now

\* The polls that other devices had since the device at position i had its own,
\* and the time since when a touch of d waits to be noticed.
Turns(i) == IF i < next THEN next - 1 - i ELSE Len(devices) + next - 1 - i
Since(d) == Greater(touched[d], asked)

\* A touch waits for one poll for each of those.
WaitOK ==
    \A i \in DOMAIN devices : touched[devices[i]] # Unset =>
        /\ stage = "poll" => now - Since(devices[i]) <= Turns(i) * Poll
        /\ stage = "wait" /\ i # next =>
                until - Since(devices[i]) <= (Turns(i) + 1) * Poll

SelectionInv ==
    /\ SelectionTypeOK /\ DevicesOK /\ StageOK /\ WaitOK
    /\ SelectionIsBounded /\ TouchIsNoticed /\ SelectionIsClean /\ SelectedServes
=============================================================================
