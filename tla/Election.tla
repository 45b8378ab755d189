------------------------------- MODULE Election -------------------------------
(***************************************************************************)
(* Leader election and leader authority of the voting-button firmware      *)
(* (code/rafting-button/main/rafting-button.c).                            *)
(*                                                                         *)
(* Every device runs, on a dual-core ESP32 and without locks:              *)
(*   - espnow_handler_task, which takes one ESP-NOW event at a time from   *)
(*     espnow_queue and acts on it;                                        *)
(*   - send_request_vote_task, which campaigns when no TIME has been seen  *)
(*     for MASTER_TIMEOUT;                                                 *)
(*   - send_time_task, which sends TIME to the ACTIVE neighbours while the *)
(*     device is MASTER.                                                   *)
(* The tasks share the global "node".  A task step below is one stretch    *)
(* between two accesses that another task can disturb.                     *)
(*                                                                         *)
(* The neighbour table appears as the set of neighbours it marks ACTIVE;   *)
(* time appears as the flag "fresh" (now - timeout_sync <= MASTER_TIMEOUT) *)
(* and as the nondeterministic choice of when the vote timeout expires.    *)
(***************************************************************************)
EXTENDS Integers, Sequences, FiniteSets

CONSTANTS
  Device,         \* the devices of the distributed system
  LinkLimit,      \* frames from one sender that can wait for one receiver
  Lossy,          \* whether the radio may lose frames
  MaxCampaigns,   \* bound: campaigns begun by all devices together
  MaxRestarts,    \* bound: restarts of all devices together
  MaxChatter      \* bound: frames that are not TIME, REQUEST_VOTE, GIVE_VOTE

ASSUME DeviceAssumption == IsFiniteSet(Device)

ASSUME BoundsAssumption ==
  /\ LinkLimit \in Nat
  /\ Lossy \in BOOLEAN
  /\ MaxCampaigns \in Nat
  /\ MaxRestarts \in Nat
  /\ MaxChatter \in Nat

VARIABLES
  title,          \* node.title
  epoch_id,       \* node.epoch_id
  count_of_vote,  \* node.count_of_vote
  fresh,          \* a TIME arrived within MASTER_TIMEOUT (node.timeout_sync)
  active,         \* neighbours with status ACTIVE in node.neighbor
  votePc,         \* where send_request_vote_task is
  loaded,         \* epoch number that task has read but not yet written back
  askTodo,        \* neighbours its REQUEST_VOTE loop has still to visit
  counting,       \* the handler is inside case GIVE_VOTE, past the title check
  timeTodo,       \* neighbours the TIME loop of send_time_task has to visit
  chan,           \* frames under way or queued, per sender and receiver
  spent           \* how much of each bound has been used

taskVars == <<votePc, loaded, askTodo, timeTodo>>
vars == <<title, epoch_id, count_of_vote, fresh, active, votePc, loaded,
          askTodo, counting, timeTodo, chan, spent>>

Title == {"SLAVE", "CANDIDATE", "MASTER"}
Kind == {"TIME", "REQUEST_VOTE", "GIVE_VOTE", "OTHER"}
Message == [kind : Kind, epoch : Nat]
Expense == {"campaigns", "restarts", "chatter"}
VotePc == {"watch", "stand", "ask", "wait", "giveup"}

\* Faulty variant: a device takes itself for a neighbour.
NeighboursAndSelf(d) == IF d \in Device THEN Device ELSE {}

\* is_device_mac keeps a device out of its own table.
Neighbours(d) == Device \ {d}

-------------------------------------------------------------------------------
(* Frames *)

\* esp_now_send towards a receiver whose queue takes LinkLimit frames of a
\* sender; xQueueSend drops the event when the queue stays full.
Send(ch, s, d, m) ==
  [ch EXCEPT ![s][d] = IF Len(@) < LinkLimit THEN Append(@, m) ELSE @]

\* The handler takes the oldest frame of s.
Take(ch, s, d) == [ch EXCEPT ![s][d] = Tail(@)]

Arrived(s, d, kind) ==
  /\ ~counting[d]
  /\ chan[s][d] # <<>>
  /\ Head(chan[s][d]).kind = kind

\* Faulty variant: adopting a newer epoch also increments it.
AdoptAndIncrement(d, e) == IF e > epoch_id[d] THEN e + 1 ELSE epoch_id[d]

\* A frame of an older epoch is reported on the console and then handled like
\* any other; a newer epoch is adopted.
AdoptEpoch(d, e) == IF e > epoch_id[d] THEN e ELSE epoch_id[d]

SeenEpoch(s, d) == AdoptEpoch(d, Head(chan[s][d]).epoch)

Quorum(d) == (Cardinality(active[d]) + 1) \div 2

CanSpend(item, limit) == spent[item] < limit
Spend(item) == spent' = [spent EXCEPT ![item] = @ + 1]

-------------------------------------------------------------------------------
(* app_main: a booted device.  The devices that have registered know some    *)
(* set of neighbours as ACTIVE.                                              *)

Init ==
  /\ title = [d \in Device |-> "SLAVE"]
  /\ epoch_id = [d \in Device |-> 0]
  /\ count_of_vote = [d \in Device |-> 0]
  /\ fresh = [d \in Device |-> TRUE]
  /\ active \in {a \in [Device -> SUBSET Device] : \A d \in Device : a[d] \subseteq Neighbours(d)}
  /\ votePc = [d \in Device |-> "watch"]
  /\ loaded = [d \in Device |-> 0]
  /\ askTodo = [d \in Device |-> {}]
  /\ counting = [d \in Device |-> FALSE]
  /\ timeTodo = [d \in Device |-> {}]
  /\ chan = [s \in Device |-> [d \in Device |-> <<>>]]
  /\ spent = [item \in Expense |-> 0]

\* Power loss and reboot: everything is in RAM and starts over.
Restart(d) ==
  /\ CanSpend("restarts", MaxRestarts)
  /\ Spend("restarts")
  /\ title' = [title EXCEPT ![d] = "SLAVE"]
  /\ epoch_id' = [epoch_id EXCEPT ![d] = 0]
  /\ count_of_vote' = [count_of_vote EXCEPT ![d] = 0]
  /\ fresh' = [fresh EXCEPT ![d] = TRUE]
  /\ active' = [active EXCEPT ![d] = {}]
  /\ votePc' = [votePc EXCEPT ![d] = "watch"]
  /\ loaded' = [loaded EXCEPT ![d] = 0]
  /\ askTodo' = [askTodo EXCEPT ![d] = {}]
  /\ counting' = [counting EXCEPT ![d] = FALSE]
  /\ timeTodo' = [timeTodo EXCEPT ![d] = {}]
  /\ chan' = [s \in Device |->
                IF s = d THEN chan[s] ELSE [chan[s] EXCEPT ![d] = <<>>]]

-------------------------------------------------------------------------------
(* espnow_handler_task *)

\* Faulty variant: a MASTER does not step down.
ReceiveTimeAsMaster(s, d) ==
  /\ Arrived(s, d, "TIME")
  /\ epoch_id' = [epoch_id EXCEPT ![d] = SeenEpoch(s, d)]
  /\ fresh' = [fresh EXCEPT ![d] = TRUE]
  /\ title' = [title EXCEPT ![d] = IF @ = "MASTER" THEN @ ELSE "SLAVE"]
  /\ chan' = Take(chan, s, d)
  /\ UNCHANGED <<count_of_vote, active, counting, taskVars, spent>>

\* Faulty variant: timeout_sync is not renewed.
ReceiveTimeNoRenewal(s, d) ==
  /\ Arrived(s, d, "TIME")
  /\ epoch_id' = [epoch_id EXCEPT ![d] = SeenEpoch(s, d)]
  /\ title' = [title EXCEPT ![d] = "SLAVE"]
  /\ chan' = Take(chan, s, d)
  /\ UNCHANGED <<count_of_vote, fresh, active, counting, taskVars, spent>>

ReceiveTime(s, d) ==
  /\ Arrived(s, d, "TIME")
  /\ epoch_id' = [epoch_id EXCEPT ![d] = SeenEpoch(s, d)]
  /\ fresh' = [fresh EXCEPT ![d] = TRUE]
  /\ title' = [title EXCEPT ![d] = "SLAVE"]
  /\ chan' = Take(chan, s, d)
  /\ UNCHANGED <<count_of_vote, active, counting, taskVars, spent>>

\* Every request is answered, whatever the title and whoever was answered before.
ReceiveRequestVote(s, d) ==
  /\ Arrived(s, d, "REQUEST_VOTE")
  /\ epoch_id' = [epoch_id EXCEPT ![d] = SeenEpoch(s, d)]
  /\ chan' = Send(Take(chan, s, d), d, s,
                  [kind |-> "GIVE_VOTE", epoch |-> SeenEpoch(s, d)])
  /\ UNCHANGED <<title, count_of_vote, fresh, active, counting, taskVars, spent>>

\* Faulty variant: votes count whatever the title.
ReceiveGiveVoteAnyTitle(s, d) ==
  /\ Arrived(s, d, "GIVE_VOTE")
  /\ epoch_id' = [epoch_id EXCEPT ![d] = SeenEpoch(s, d)]
  /\ counting' = [counting EXCEPT ![d] = TRUE]
  /\ chan' = Take(chan, s, d)
  /\ UNCHANGED <<title, count_of_vote, fresh, active, taskVars, spent>>

\* First half of case GIVE_VOTE: the test of the title.
ReceiveGiveVote(s, d) ==
  /\ Arrived(s, d, "GIVE_VOTE")
  /\ epoch_id' = [epoch_id EXCEPT ![d] = SeenEpoch(s, d)]
  /\ counting' = [counting EXCEPT ![d] = title[d] = "CANDIDATE"]
  /\ chan' = Take(chan, s, d)
  /\ UNCHANGED <<title, count_of_vote, fresh, active, taskVars, spent>>

\* Second half: count, compare, become MASTER.  The vote task, on the other
\* core, may have given up in between.
CountVote(d) ==
  /\ counting[d]
  /\ counting' = [counting EXCEPT ![d] = FALSE]
  /\ count_of_vote' = [count_of_vote EXCEPT ![d] = @ + 1]
  /\ title' = IF count_of_vote[d] + 1 >= Quorum(d)
                THEN [title EXCEPT ![d] = "MASTER"] ELSE title
  /\ UNCHANGED <<epoch_id, fresh, active, taskVars, chan, spent>>

\* HELLO_DS, NEIGHBORS, RTT_CAL_MASTER, RTT_CAL_SLAVE, RTT and LOG: the epoch
\* is adopted, HELLO_DS and NEIGHBORS may change which neighbours are ACTIVE,
\* and HELLO_DS and the RTT exchange are answered.
ReceiveOther(s, d) ==
  /\ Arrived(s, d, "OTHER")
  /\ epoch_id' = [epoch_id EXCEPT ![d] = SeenEpoch(s, d)]
  /\ \E known \in SUBSET Neighbours(d) : active' = [active EXCEPT ![d] = known]
  /\ \/ /\ chan' = Take(chan, s, d)
        /\ UNCHANGED spent
     \/ /\ CanSpend("chatter", MaxChatter)
        /\ Spend("chatter")
        /\ chan' = Send(Take(chan, s, d), d, s,
                        [kind |-> "OTHER", epoch |-> SeenEpoch(s, d)])
  /\ UNCHANGED <<title, count_of_vote, fresh, counting, taskVars>>

\* case ESPNOW_SEND_CB after COUNT_ERROR_MESSAGE_TO_INACTIVE failures; the
\* NEIGHBORS frames it sends are steps of SendOther.
MarkInactive(d, n) ==
  /\ Lossy
  /\ ~counting[d]
  /\ n \in active[d]
  /\ active' = [active EXCEPT ![d] = @ \ {n}]
  /\ UNCHANGED <<title, epoch_id, count_of_vote, fresh, counting, taskVars,
                 chan, spent>>

-------------------------------------------------------------------------------
(* send_request_vote_task *)

\* MASTER_TIMEOUT passes without a TIME.
Lapse(d) ==
  /\ fresh[d]
  /\ fresh' = [fresh EXCEPT ![d] = FALSE]
  /\ UNCHANGED <<title, epoch_id, count_of_vote, active, counting, taskVars,
                 chan, spent>>

\* The test of title and timeout, and the load of ++node.epoch_id.  The task
\* has slept for two seconds since its last campaign, so the handler is no
\* longer in the middle of a vote of that campaign.
Expire(d) ==
  /\ votePc[d] = "watch"
  /\ ~counting[d]
  /\ title[d] = "SLAVE"
  /\ ~fresh[d]
  /\ CanSpend("campaigns", MaxCampaigns)
  /\ Spend("campaigns")
  /\ loaded' = [loaded EXCEPT ![d] = epoch_id[d]]
  /\ votePc' = [votePc EXCEPT ![d] = "stand"]
  /\ UNCHANGED <<title, epoch_id, count_of_vote, fresh, active, askTodo,
                 counting, timeTodo, chan>>

\* Faulty variant: the votes of the last campaign are kept.
StandKeepingVotes(d) ==
  /\ votePc[d] = "stand"
  /\ epoch_id' = [epoch_id EXCEPT ![d] = loaded[d] + 1]
  /\ loaded' = [loaded EXCEPT ![d] = 0]
  /\ title' = [title EXCEPT ![d] = "CANDIDATE"]
  /\ askTodo' = [askTodo EXCEPT ![d] = Neighbours(d)]
  /\ votePc' = [votePc EXCEPT ![d] = "ask"]
  /\ UNCHANGED <<count_of_vote, fresh, active, counting, timeTodo, chan, spent>>

\* The store of ++node.epoch_id, the reset of the votes and the new title.
Stand(d) ==
  /\ votePc[d] = "stand"
  /\ epoch_id' = [epoch_id EXCEPT ![d] = loaded[d] + 1]
  /\ loaded' = [loaded EXCEPT ![d] = 0]
  /\ count_of_vote' = [count_of_vote EXCEPT ![d] = 0]
  /\ title' = [title EXCEPT ![d] = "CANDIDATE"]
  /\ askTodo' = [askTodo EXCEPT ![d] = Neighbours(d)]
  /\ votePc' = [votePc EXCEPT ![d] = "ask"]
  /\ UNCHANGED <<fresh, active, counting, timeTodo, chan, spent>>

\* One round of the REQUEST_VOTE loop; the last one starts the vote timeout.
AskVote(d, n) ==
  /\ votePc[d] = "ask"
  /\ n \in askTodo[d]
  /\ askTodo' = [askTodo EXCEPT ![d] = @ \ {n}]
  /\ chan' = IF n \in active[d]
               THEN Send(chan, d, n, [kind |-> "REQUEST_VOTE", epoch |-> epoch_id[d]])
               ELSE chan
  /\ UNCHANGED <<title, epoch_id, count_of_vote, fresh, active, votePc, loaded,
                 counting, timeTodo, spent>>

StartWaiting(d) ==
  /\ votePc[d] = "ask"
  /\ askTodo[d] = {}
  /\ votePc' = [votePc EXCEPT ![d] = "wait"]
  /\ UNCHANGED <<title, epoch_id, count_of_vote, fresh, active, loaded, askTodo,
                 counting, timeTodo, chan, spent>>

\* The waiting loop sees that the campaign is decided.
Decided(d) ==
  /\ votePc[d] = "wait"
  /\ title[d] # "CANDIDATE"
  /\ votePc' = [votePc EXCEPT ![d] = "watch"]
  /\ UNCHANGED <<title, epoch_id, count_of_vote, fresh, active, loaded, askTodo,
                 counting, timeTodo, chan, spent>>

\* Faulty variant: the timeout is not looked at when nobody can vote.
VoteTimeoutWithVoters(d) ==
  /\ votePc[d] = "wait"
  /\ title[d] = "CANDIDATE"
  /\ active[d] # {}
  /\ votePc' = [votePc EXCEPT ![d] = "giveup"]
  /\ UNCHANGED <<title, epoch_id, count_of_vote, fresh, active, loaded, askTodo,
                 counting, timeTodo, chan, spent>>

\* It sees a CANDIDATE and then the end of VOTE_TIMEOUT ...
VoteTimeout(d) ==
  /\ votePc[d] = "wait"
  /\ title[d] = "CANDIDATE"
  /\ votePc' = [votePc EXCEPT ![d] = "giveup"]
  /\ UNCHANGED <<title, epoch_id, count_of_vote, fresh, active, loaded, askTodo,
                 counting, timeTodo, chan, spent>>

\* Faulty variant: the loop is left without storing SLAVE.
GiveUpKeepingTitle(d) ==
  /\ votePc[d] = "giveup"
  /\ votePc' = [votePc EXCEPT ![d] = "watch"]
  /\ UNCHANGED <<title, epoch_id, count_of_vote, fresh, active, loaded, askTodo,
                 counting, timeTodo, chan, spent>>

\* ... and stores SLAVE, whatever the title has become since.
GiveUp(d) ==
  /\ votePc[d] = "giveup"
  /\ title' = [title EXCEPT ![d] = "SLAVE"]
  /\ votePc' = [votePc EXCEPT ![d] = "watch"]
  /\ UNCHANGED <<epoch_id, count_of_vote, fresh, active, loaded, askTodo,
                 counting, timeTodo, chan, spent>>

-------------------------------------------------------------------------------
(* send_time_task *)

BeginTime(d) ==
  /\ title[d] = "MASTER"
  /\ timeTodo[d] = {}
  /\ timeTodo' = [timeTodo EXCEPT ![d] = Neighbours(d)]
  /\ UNCHANGED <<title, epoch_id, count_of_vote, fresh, active, votePc, loaded,
                 askTodo, counting, chan, spent>>

\* One round of the loop; the title is not looked at again.
SendTime(d, n) ==
  /\ n \in timeTodo[d]
  /\ timeTodo' = [timeTodo EXCEPT ![d] = @ \ {n}]
  /\ chan' = IF n \in active[d]
               THEN Send(chan, d, n, [kind |-> "TIME", epoch |-> epoch_id[d]])
               ELSE chan
  /\ UNCHANGED <<title, epoch_id, count_of_vote, fresh, active, votePc, loaded,
                 askTodo, counting, spent>>

-------------------------------------------------------------------------------
(* The other senders (HELLO_DS, NEIGHBORS after a failure, RTT_CAL_MASTER,   *)
(* LOG) and the radio.                                                       *)

SendOther(d, n) ==
  /\ CanSpend("chatter", MaxChatter)
  /\ Spend("chatter")
  /\ chan' = Send(chan, d, n, [kind |-> "OTHER", epoch |-> epoch_id[d]])
  /\ UNCHANGED <<title, epoch_id, count_of_vote, fresh, active, counting, taskVars>>

Lose(s, d) ==
  /\ Lossy
  /\ chan[s][d] # <<>>
  /\ chan' = Take(chan, s, d)
  /\ UNCHANGED <<title, epoch_id, count_of_vote, fresh, active, counting,
                 taskVars, spent>>

-------------------------------------------------------------------------------

Receive(s, d) ==
  \/ ReceiveTime(s, d)
  \/ ReceiveRequestVote(s, d)
  \/ ReceiveGiveVote(s, d)
  \/ ReceiveOther(s, d)

VoteTask(d) ==
  \/ Expire(d)
  \/ Stand(d)
  \/ \E n \in Neighbours(d) : AskVote(d, n)
  \/ StartWaiting(d)
  \/ Decided(d)
  \/ VoteTimeout(d)
  \/ GiveUp(d)

TimeTask(d) ==
  \/ BeginTime(d)
  \/ \E n \in Neighbours(d) : SendTime(d, n)

Next ==
  \/ \E d \in Device :
       \/ Restart(d) \/ CountVote(d) \/ Lapse(d) \/ VoteTask(d) \/ TimeTask(d)
  \/ \E s \in Device : \E d \in Neighbours(s) :
       \/ Receive(s, d) \/ MarkInactive(s, d) \/ SendOther(s, d) \/ Lose(s, d)

Spec == Init /\ [][Next]_vars

\* FreeRTOS runs every ready task again and again: the handler empties its
\* queue, the vote task leaves its waiting loop, the master keeps sending TIME.
Fairness ==
  /\ \A d \in Device :
       /\ WF_vars(CountVote(d))
       /\ WF_vars(VoteTask(d))
       /\ WF_vars(TimeTask(d))
  /\ \A s, d \in Device : WF_vars(Receive(s, d))

FairSpec == Spec /\ Fairness

-------------------------------------------------------------------------------
(* Properties *)

\* Every variable has its type; frames carry a kind and an epoch.
TypeOK ==
  /\ title \in [Device -> Title]
  /\ epoch_id \in [Device -> Nat]
  /\ count_of_vote \in [Device -> Nat]
  /\ fresh \in [Device -> BOOLEAN]
  /\ active \in [Device -> SUBSET Device]
  /\ \A d \in Device : d \notin active[d]
  /\ votePc \in [Device -> VotePc]
  /\ loaded \in [Device -> Nat]
  /\ askTodo \in [Device -> SUBSET Device]
  /\ counting \in [Device -> BOOLEAN]
  /\ timeTodo \in [Device -> SUBSET Device]
  /\ chan \in [Device -> [Device -> Seq(Message)]]
  /\ spent \in [Expense -> Nat]

\* A CANDIDATE always has its vote task still at work on the campaign.  The task
\* only starts from SLAVE, so a CANDIDATE it has left would stay one until
\* another leader speaks to it, whatever the handler did in between.
NoOrphanCandidate ==
  \A d \in Device : title[d] = "CANDIDATE" => votePc[d] \in {"ask", "wait", "giveup"}

\* The vote counter stays within half the devices, late and repeated answers and
\* a shrinking neighbour table included: with ten devices the uint8_t
\* count_of_vote never passes five.
VotesBounded ==
  \A d \in Device : count_of_vote[d] <= Cardinality(Device) \div 2

\* Nobody is in an epoch that no campaign opened: however epochs are adopted from
\* delayed frames and whatever ++epoch_id loses or repeats, epoch numbers never
\* run ahead of the campaigns begun.
EpochsEarned ==
  \A d \in Device : epoch_id[d] <= spent["campaigns"]

\* The role of a device as the algorithm sees it: a vote the handler has accepted
\* from a CANDIDATE still counts for that candidacy when the vote task gives up on
\* the other core before the handler has counted it.
RoleOf(d) == IF counting[d] THEN "CANDIDATE" ELSE title[d]

Role == INSTANCE Roles WITH
  role <- [d \in Device |-> RoleOf(d)],
  answered <- [d \in Device |-> count_of_vote[d] > 0]

\* Each device follows the role diagram, for every interleaving of its handler
\* with its vote task.
RoleDiagram == Role!Spec

\* A candidacy ends: by a majority, by the TIME of another leader or by the vote
\* timeout, but it ends.
CandidacyEnds ==
  \A d \in Device : title[d] = "CANDIDATE" ~> title[d] # "CANDIDATE"

\* Two leaders that have each other ACTIVE do not lead side by side forever: the
\* TIME of one reaches the other.
RivalsYield ==
  \A d \in Device : \A e \in Neighbours(d) :
    (title[d] = "MASTER" /\ title[e] = "MASTER")
      ~> (title[d] # "MASTER" \/ title[e] # "MASTER"
            \/ d \notin active[e] \/ e \notin active[d])

\* A lasting leader is heard again and again by its ACTIVE neighbours.
LeaderIsHeard ==
  \A d \in Device : \A n \in Neighbours(d) :
    <>[](title[d] = "MASTER" /\ n \in active[d]) => []<>fresh[n]

-------------------------------------------------------------------------------
(* What the documentation says and the code does not do *)

\* "There can be only one leader in each epoch" (thesis, chapter on the algorithm).
OneLeaderPerEpoch ==
  \A d, e \in Device :
    title[d] = "MASTER" /\ title[e] = "MASTER" /\ epoch_id[d] = epoch_id[e] => d = e
===============================================================================
