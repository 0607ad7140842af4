--------------------------- MODULE TrainingProofs ---------------------------
(***************************************************************************)
(* The training loop with its checkpoints, for any number of epochs,       *)
(* batches and runs, any losses and any settings of the flags.             *)
(***************************************************************************)
EXTENDS Training, WellFoundedInduction, TLAPS

Paths == Savers \X Nat
Ckpts == [step : Nat, loss : AllLosses, lr : Nat]

PCs == {"load", "epoch", "batch", "dev", "stop", "plateau", "done", "down"} \cup SavePCs

\* Where an epoch of this run is under way.
InEpoch == \/ pc \in {"batch", "dev", "stop", "plateau"}
           \/ pc \in SavePCs /\ ret \in {"batch", "dev", "stop"}

\* The variables of the loop.
LoopOK ==
    /\ pc \in PCs /\ ret \in {"load", "batch", "dev", "stop", "epoch"}
    /\ runs \in 1..MaxRuns /\ epoch \in 0..Epochs[runs] /\ k \in 0..Steps
    /\ InEpoch => epoch < Epochs[runs]
    /\ best_dev_loss \in AllLosses \cup {Infinite} /\ dev_losses \in Seq(AllLosses)
    /\ epochs_without_improvement \in Nat
    /\ same_dir \in BOOLEAN /\ box \in BOOLEAN
    /\ lock \in BOOLEAN /\ data \in 0..Steps /\ cached \in NoIndex..Steps /\ cache_for_epochs \in Nat

\* The session holds a checkpoint once one is loaded; files hold checkpoints.
SessionOK ==
    /\ session \in [step : Nat, loss : AllLosses \cup {Infinite}, lr : Nat]
    /\ Running => session \in Ckpts
FilesOK == \A p \in DOMAIN files : p \in Paths /\ files[p] \in Ckpts

\* The state file of a saver names a file of this saver.
NamesOK ==
    /\ latest \in [Savers -> Paths \cup {None}]
    /\ \A n \in Savers : latest[n] # None => latest[n] \in DOMAIN files /\ latest[n][1] = n

\* The list of a saver has paths of this saver, none of them twice.
KeptOK ==
    /\ kept \in [Savers -> Seq(Paths)]
    /\ \A n \in Savers : \A i, j \in DOMAIN kept[n] : kept[n][i] = kept[n][j] => i = j
    /\ \A n \in Savers : \A i \in DOMAIN kept[n] : kept[n][i][1] = n

\* A save under way: the file is there before it is named, and what is going to
\* be deleted is neither it nor a file of the other saver.
SavingOK ==
    /\ pc \in SavePCs => saving \in Paths /\ ret # "load"
    /\ pc \in SavePCs \ {"write"} => saving \in DOMAIN files
    /\ pc \notin {"delete", "down", "done"} => doomed = <<>>
    /\ pc = "delete" =>
         /\ latest[saving[1]] = saving
         /\ \A p \in Range(doomed) : p # saving /\ p[1] = saving[1]

\* The inductive invariant of loop and checkpoints.
SaveInv == LoopOK /\ SessionOK /\ FilesOK /\ NamesOK /\ KeptOK /\ SavingOK

\* Between two epochs of a run.
Between == pc = "epoch" \/ (pc \in SavePCs /\ ret = "epoch")

\* The age of the cached features, against the epochs since the last expiry.
CacheInv ==
    /\ age \in Nat
    /\ cache_for_epochs > 0 =>
         /\ age <= cache_for_epochs
         /\ InEpoch => age <= (epoch % cache_for_epochs) + 1
         /\ Between /\ epoch % cache_for_epochs # 0 => age <= epoch % cache_for_epochs

\* An exception of the generator ends the process before anything but the cache
\* takes the short epoch for a whole one; a short cache is then all that is left
\* of it, which the first epoch of the next run removes if caches expire.
FailureOK ==
    /\ box => InPass \/ pc \in {"dev", "down", "done"}
    /\ cached \notin {NoIndex, Steps} =>
         \/ box \/ pc \in {"down", "done"}
         \/ runs > 1 /\ (cache_for_epochs = 0 \/ pc = "load" \/ (pc = "epoch" /\ epoch = 0))

\* What a pass has to go through: the whole training set, or an inherited cache.
Held == IF Inherited THEN cached ELSE Steps
PassOK ==
    /\ age \in Nat /\ (cached # NoIndex => age >= 1)
    /\ InPass => /\ k <= data /\ (~box => data = Held)
                 /\ age = 1 \/ (age > 1 /\ cached # NoIndex)
WholeInv == FailureOK /\ PassOK /\ EpochsWhole

\* best_dev_loss is the smallest finite loss of the run; epochs count as without
\* improvement only after one.
LossesOK ==
    /\ \A i \in DOMAIN dev_losses : dev_losses[i] \in Losses => best_dev_loss <= dev_losses[i]
    /\ best_dev_loss # Infinite => /\ best_dev_loss \in Losses
                                   /\ \E i \in DOMAIN dev_losses : dev_losses[i] = best_dev_loss
    /\ epochs_without_improvement > 0 => best_dev_loss # Infinite
    /\ pc = "plateau" => epochs_without_improvement > 0

\* The checkpoint holds the weights of the best loss, and the rate in use.
IsBest(c) == c.loss = best_dev_loss /\ c.lr = session.lr

\* The state file names such a checkpoint, or one is on its way there.
DiskOK ==
    same_dir /\ Running /\ best_dev_loss # Infinite =>
       /\ ~SavingBest => latest["best_dev"] # None /\ IsBest(files[latest["best_dev"]])
       /\ SavingBest /\ pc = "write" => IsBest(session)
       /\ SavingBest /\ pc = "state" => IsBest(files[saving])
BestInv == LossesOK /\ DiskOK

\* Entry m of a list of losses improves on all before it; with finite losses the
\* last that does is e entries back.
ImprovesIn(s, m) ==
    s[m] \in Losses /\ \A j \in 1..(m - 1) : s[j] \in Losses => s[m] <= s[j] - MinDelta
LastImproved(s, e) ==
    /\ s # <<>> /\ (\A i \in DOMAIN s : s[i] \in Losses) => e < Len(s) /\ ImprovesIn(s, Len(s) - e)
    /\ s = <<>> => e = 0

\* The last epoch that improved is as far back as epochs_without_improvement says,
\* and a run that goes on has not reached the limit.
CountOK == LastImproved(dev_losses, epochs_without_improvement)
LimitOK ==
    EarlyStop /\ EsEpochs > 0 =>
         /\ epochs_without_improvement <= EsEpochs
         /\ Between \/ (InEpoch /\ pc # "stop" /\ ~(pc \in SavePCs /\ ret = "stop")) =>
              epochs_without_improvement < EsEpochs
StopInv == CountOK /\ LimitOK
-----------------------------------------------------------------------------
(* Operators *)

\* A non-empty set of naturals has a smallest element.
LEMMA Smallest ==
    ASSUME NEW S \in SUBSET Nat, S # {}
    PROVE  \E s \in S : \A t \in S : s <= t
<1> DEFINE R == OpToRel(<, Nat)
<1>1. \A s, t \in Nat : t < s => <<t, s>> \in R
  BY DEF OpToRel
<1>2. IsWellFoundedOn(R, Nat)
  BY NatLessThanWellFounded
<1> HIDE DEF R
<1>3. PICK s \in S : \A t \in S : <<t, s>> \notin R
  BY <1>2, WFMin
<1>4. ASSUME NEW t \in S PROVE s <= t
  <2>1. s \in Nat /\ t \in Nat
    OBVIOUS
  <2>2. ~(t < s)
    BY <1>1, <1>3, <2>1
  <2> QED BY <2>1, <2>2
<1> QED BY <1>4

\* What can be loaded are checkpoints.
LEMMA LoadedCkpt ==
    ASSUME SaveInv, NEW order \in Seq({"best", "last", "init"})
    PROVE  LoadOrInit(order) \subseteq Ckpts
<1> DEFINE yields(m) == CASE m = "best" -> Loadable("best_dev")
                          [] m = "last" -> Loadable("train")
                          [] m = "init" -> {Fresh(l) : l \in AllLosses}
           usable == {i \in DOMAIN order : yields(order[i]) # {}}
<1>1. \A n \in Savers : Loadable(n) \subseteq Ckpts
  BY TrainingAssumption DEF SaveInv, FilesOK, NamesOK, Loadable, Ckpts, AllLosses, Savers
<1>2. \A m \in {"best", "last", "init"} : yields(m) \subseteq Ckpts
  BY <1>1 DEF Fresh, Ckpts, Savers
<1>3. CASE usable = {}
  BY <1>3 DEF LoadOrInit
<1>4. CASE usable # {}
  <2>1. usable \in SUBSET Nat
    OBVIOUS
  <2> DEFINE i == CHOOSE i \in usable : \A j \in usable : i <= j
  <2>2. i \in usable
    <3> HIDE DEF usable
    <3>1. \E j \in usable : \A l \in usable : j <= l
      BY <1>4, <2>1, Smallest
    <3> QED BY <3>1
  <2>3. order[i] \in {"best", "last", "init"}
    <3> HIDE DEF i, yields
    <3> QED BY <2>2
  <2>4. LoadOrInit(order) = yields(order[i])
    BY <1>4 DEF LoadOrInit
  <2> HIDE DEF i, yields
  <2> QED BY <1>2, <2>3, <2>4
<1> QED BY <1>3, <1>4

\* Loading the best checkpoint.
LEMMA LoadedBest == LoadOrInit(<<"best">>) = Loadable("best_dev")
<1> DEFINE order == <<"best">>
<1>1. DOMAIN order = {1} /\ order[1] = "best"
  OBVIOUS
<1>2. CASE Loadable("best_dev") = {}
  BY <1>1, <1>2 DEF LoadOrInit
<1>3. CASE Loadable("best_dev") # {}
  BY <1>1, <1>3 DEF LoadOrInit
<1> QED BY <1>2, <1>3

\* Recording a path keeps a list without repetitions free of them, and puts the
\* path at the end.
LEMMA RecordedProps ==
    ASSUME NEW S, NEW list \in Seq(S), NEW p \in S,
           \A i, j \in DOMAIN list : list[i] = list[j] => i = j
    PROVE  /\ Recorded(list, p) \in Seq(S)
           /\ Len(Recorded(list, p)) \in Nat /\ Len(Recorded(list, p)) > 0
           /\ Recorded(list, p)[Len(Recorded(list, p))] = p
           /\ \A i, j \in DOMAIN Recorded(list, p) :
                Recorded(list, p)[i] = Recorded(list, p)[j] => i = j
           /\ \A i \in DOMAIN Recorded(list, p) :
                Recorded(list, p)[i] = p \/ \E j \in DOMAIN list : Recorded(list, p)[i] = list[j]
<1> DEFINE at == {i \in DOMAIN list : list[i] = p}
           c == CHOOSE i \in at : TRUE
           rest == IF at = {} THEN list ELSE RemoveAt(list, c)
           new == Recorded(list, p)
<1>1. new = Append(rest, p)
  BY DEF Recorded
<1>2. /\ rest \in Seq(S)
      /\ \A i \in DOMAIN rest : rest[i] # p
      /\ \A i, j \in DOMAIN rest : rest[i] = rest[j] => i = j
      /\ \A i \in DOMAIN rest : \E j \in DOMAIN list : rest[i] = list[j]
  <2>1. CASE at = {}
    BY <2>1
  <2>2. CASE at # {}
    <3>1. c \in 1..Len(list) /\ list[c] = p
      BY <2>2
    <3> DEFINE a == SubSeq(list, 1, c - 1)
               b == SubSeq(list, c + 1, Len(list))
    <3>2. rest = a \o b
      BY <2>2 DEF RemoveAt
    <3>3. a \in Seq(S) /\ Len(a) = c - 1 /\ \A i \in 1..(c - 1) : a[i] = list[i]
      BY <3>1
    <3>4. /\ b \in Seq(S) /\ Len(b) = Len(list) - c
          /\ \A i \in 1..(Len(list) - c) : b[i] = list[c + i]
      BY <3>1
    <3> HIDE DEF c, a, b, rest
    <3>5. rest \in Seq(S) /\ Len(rest) = Len(list) - 1 /\ DOMAIN rest = 1..(Len(list) - 1)
      BY <3>1, <3>2, <3>3, <3>4
    <3>6. ASSUME NEW i \in DOMAIN rest, i < c PROVE rest[i] = list[i]
      BY <3>1, <3>2, <3>3, <3>4, <3>5, <3>6
    <3>7. ASSUME NEW i \in DOMAIN rest, ~(i < c) PROVE rest[i] = list[i + 1]
      <4>1. i \in Int /\ i - Len(a) \in 1..Len(b) /\ rest[i] = b[i - Len(a)]
        BY <3>1, <3>2, <3>3, <3>4, <3>5, <3>7
      <4>2. b[i - Len(a)] = list[c + (i - Len(a))]
        BY <3>3, <3>4, <4>1
      <4>3. c + (i - Len(a)) = i + 1
        BY <3>1, <3>3, <4>1
      <4> QED BY <4>1, <4>2, <4>3
    <3> DEFINE at2(i) == IF i < c THEN i ELSE i + 1
    <3>8. \A i \in DOMAIN rest : at2(i) \in DOMAIN list /\ at2(i) # c /\ rest[i] = list[at2(i)]
      BY <3>1, <3>5, <3>6, <3>7
    <3>9. \A i, j \in DOMAIN rest : at2(i) = at2(j) => i = j
      BY <3>1, <3>5
    <3> HIDE DEF at2
    <3> QED BY <3>1, <3>5, <3>8, <3>9
  <2> QED BY <2>1, <2>2
<1> HIDE DEF rest
<1>3. /\ new \in Seq(S) /\ Len(new) = Len(rest) + 1 /\ Len(rest) \in Nat
      /\ new[Len(new)] = p /\ \A i \in DOMAIN rest : new[i] = rest[i]
      /\ DOMAIN new = 1..(Len(rest) + 1) /\ DOMAIN rest = 1..Len(rest)
  BY <1>1, <1>2
<1> HIDE DEF new
<1>4. \A i, j \in DOMAIN new : new[i] = new[j] => i = j
  BY <1>2, <1>3
<1>5. \A i \in DOMAIN new : new[i] = p \/ \E j \in DOMAIN list : new[i] = list[j]
  BY <1>2, <1>3
<1> QED BY <1>3, <1>4, <1>5 DEF new
-----------------------------------------------------------------------------
(* SaveInv is inductive *)

LEMMA LossTypes ==
    /\ AllLosses \subseteq Int /\ Losses \subseteq AllLosses
    /\ \A l \in AllLosses : l # NaN /\ l # Infinite => l \in Losses /\ l < Infinite
    /\ \A l \in Losses : l # NaN /\ l < Infinite
<1>1. Losses \subseteq 0..999 /\ NonFinite \subseteq {1000, -1}
  BY TrainingAssumption DEF NaN, Infinite
<1>2. \A l \in Losses : l \in Int /\ 0 <= l /\ l < 1000
  BY <1>1
<1>3. \A l \in NonFinite : l = 1000 \/ l = -1
  BY <1>1
<1> QED BY <1>2, <1>3 DEF AllLosses, NaN, Infinite

LEMMA SaveInit == Init => SaveInv
<1> USE TrainingAssumption
<1> SUFFICES ASSUME Init PROVE SaveInv
  OBVIOUS
<1>1. LoopOK
  <2>1. dev_losses \in Seq(AllLosses)
    BY DEF Init
  <2>2. runs \in 1..MaxRuns /\ epoch \in 0..Epochs[runs] /\ k \in 0..Steps
    BY DEF Init
  <2>3. lock \in BOOLEAN /\ data \in 0..Steps /\ cached \in NoIndex..Steps /\ cache_for_epochs \in Nat
    <3>1. cached = NoIndex /\ data = 0 /\ lock = FALSE /\ cache_for_epochs \in CacheForEpochs
      BY DEF Init
    <3>2. NoIndex \in NoIndex..Steps /\ 0 \in 0..Steps
      BY DEF NoIndex
    <3> QED BY <3>1, <3>2
  <2> QED BY <2>1, <2>2, <2>3 DEF Init, LoopOK, PCs, InEpoch, SavePCs
<1>2. SessionOK
  BY DEF Init, SessionOK, Running, Fresh
<1>3. FilesOK /\ NamesOK
  BY DEF Init, FilesOK, NamesOK
<1>4. KeptOK
  <2>1. <<>> \in Seq(Paths) /\ DOMAIN <<>> = {}
    OBVIOUS
  <2>2. kept = [n \in Savers |-> <<>>]
    BY DEF Init
  <2> QED BY <2>1, <2>2 DEF KeptOK
<1>5. SavingOK
  BY DEF Init, SavingOK, SavePCs
<1> QED BY <1>1, <1>2, <1>3, <1>4, <1>5 DEF SaveInv

\* What is on disk and in the lists, for steps that leave them alone.
LEMMA DiskKept ==
    ASSUME SaveInv, UNCHANGED <<files, latest, kept>>
    PROVE  FilesOK' /\ NamesOK' /\ KeptOK'
<1>1. FilesOK' /\ NamesOK'
  BY DEF SaveInv, FilesOK, NamesOK
<1>2. KeptOK'
  BY DEF SaveInv, KeptOK
<1> QED BY <1>1, <1>2

\* A new session is a checkpoint that was loaded, or fresh.
LEMMA SaveLoad == ASSUME SaveInv, Load PROVE SaveInv'
<1> USE TrainingAssumption DEF SaveInv, saver, disk, cache
<1>1. FilesOK' /\ NamesOK' /\ KeptOK'
  BY DiskKept DEF Load
<1>2. Methods[runs] \in Seq({"best", "last", "init"})
  BY DEF LoopOK
<1>3. SavingOK'
  BY DEF Load, SavingOK, SavePCs
<1>4. CASE LoadOrInit(Methods[runs]) = {}
  <2>1. LoopOK' /\ SessionOK'
    BY <1>4 DEF Load, LoopOK, SessionOK, PCs, InEpoch, SavePCs, Running, loop
  <2> QED BY <1>1, <1>3, <2>1
<1>5. CASE LoadOrInit(Methods[runs]) # {}
  <2>1. PICK c \in LoadOrInit(Methods[runs]) : \E l \in IF same_dir THEN {c.loss} ELSE AllLosses :
            session' = [c EXCEPT !.loss = l, !.lr = IF ForceLR THEN 0 ELSE @]
    BY <1>5 DEF Load
  <2>2. c \in Ckpts
    BY <1>2, <2>1, LoadedCkpt
  <2>3. PICK l \in AllLosses : session' = [c EXCEPT !.loss = l, !.lr = IF ForceLR THEN 0 ELSE @]
    BY <2>1, <2>2 DEF Ckpts
  <2>4. session' \in Ckpts
    BY <2>2, <2>3 DEF Ckpts
  <2>5. SessionOK'
    BY <2>4 DEF SessionOK, Ckpts
  <2>a. /\ dev_losses' = <<>> /\ epoch' = 0 /\ pc' = "epoch" /\ best_dev_loss' = Infinite
        /\ epochs_without_improvement' = 0
        /\ UNCHANGED <<ret, runs, k, same_dir, box, cache_for_epochs, data, cached, lock>>
    BY <1>5 DEF Load
  <2>6. dev_losses' \in Seq(AllLosses) /\ epoch' \in 0..Epochs[runs']
    BY <2>a DEF LoopOK
  <2>7. LoopOK'
    BY <2>a, <2>6 DEF LoopOK, PCs, InEpoch, SavePCs
  <2> QED BY <1>1, <1>3, <2>5, <2>7
<1> QED BY <1>4, <1>5

\* A plateau loads the best checkpoint, if there is one, and saves it again.
LEMMA SaveReload == ASSUME SaveInv, Reload PROVE SaveInv'
<1> USE TrainingAssumption DEF SaveInv, disk, cache, loop
<1>1. FilesOK' /\ NamesOK' /\ KeptOK'
  BY DiskKept DEF Reload
<1>2. CASE LoadOrInit(<<"best">>) = {}
  <2>1. LoopOK' /\ SessionOK' /\ SavingOK'
    BY <1>2 DEF Reload, LoopOK, SessionOK, SavingOK, PCs, InEpoch, SavePCs, Running
  <2> QED BY <1>1, <2>1
<1>3. CASE LoadOrInit(<<"best">>) # {}
  <2>1. PICK c \in LoadOrInit(<<"best">>) :
            session' = [c EXCEPT !.lr = @ + 1] /\ PlateauSave(c) /\ epoch' = epoch + 1
    BY <1>3 DEF Reload
  <2>2. <<"best">> \in Seq({"best", "last", "init"})
    OBVIOUS
  <2>3. c \in Ckpts
    BY <2>1, <2>2, LoadedCkpt
  <2>4. session' \in Ckpts
    BY <2>1, <2>3 DEF Ckpts
  <2>5. SessionOK'
    BY <2>4 DEF SessionOK, Ckpts
  <2>6. saving' \in Paths /\ pc' = "write" /\ ret' = "epoch"
    BY <2>1, <2>3 DEF PlateauSave, Paths, Savers, Ckpts
  <2>7. SavingOK'
    BY <2>6 DEF Reload, SavingOK, SavePCs
  <2>8. epoch' \in 0..Epochs[runs']
    BY SMTT(30), <2>1 DEF Reload, LoopOK, InEpoch
  <2>9. LoopOK'
    BY <2>6, <2>8 DEF Reload, LoopOK, PCs, InEpoch, SavePCs
  <2> QED BY <1>1, <2>5, <2>7, <2>9
<1> QED BY <1>2, <1>3

\* The file is written before anything names it.
LEMMA SaveWrite == ASSUME SaveInv, Write PROVE SaveInv'
<1> USE TrainingAssumption DEF SaveInv, saver, cache, loop
<1>0. saving \in Paths /\ session \in Ckpts /\ pc = "write"
  BY DEF Write, SavingOK, SavePCs, SessionOK, Running
<1>1. DOMAIN files' = DOMAIN files \cup {saving}
  BY DEF Write
<1>2. \A p \in DOMAIN files' : files'[p] = IF p = saving THEN session ELSE files[p]
  BY DEF Write
<1>3. FilesOK'
  BY <1>0, <1>1, <1>2 DEF FilesOK
<1>4. NamesOK'
  BY <1>1 DEF Write, NamesOK
<1>5. KeptOK'
  BY DEF Write, KeptOK
<1>6. LoopOK' /\ SessionOK'
  BY DEF Write, LoopOK, SessionOK, PCs, InEpoch, SavePCs, Running
<1>7. SavingOK'
  BY <1>0, <1>1 DEF Write, SavingOK, SavePCs
<1> QED BY <1>3, <1>4, <1>5, <1>6, <1>7

\* The state file names the new checkpoint, and the oldest one may have to go:
\* it is another one, since the list has none twice.
LEMMA SaveUpdateState == ASSUME SaveInv, UpdateState PROVE SaveInv'
<1> USE DEF SaveInv, cache, loop
<1> DEFINE name == saving[1]
           list == Recorded(kept[name], saving)
<1>0. saving \in Paths /\ saving \in DOMAIN files /\ pc = "state" /\ doomed = <<>> /\ name \in Savers
  BY DEF UpdateState, SavingOK, SavePCs, Paths
<1>1. /\ list \in Seq(Paths) /\ Len(list) \in Nat /\ Len(list) > 0
      /\ list[Len(list)] = saving
      /\ \A i, j \in DOMAIN list : list[i] = list[j] => i = j
      /\ \A i \in DOMAIN list : list[i] = saving \/ \E j \in DOMAIN kept[name] : list[i] = kept[name][j]
  <2> DEFINE old == kept[name]
  <2>1. old \in Seq(Paths) /\ \A i, j \in DOMAIN old : old[i] = old[j] => i = j
    BY <1>0 DEF KeptOK
  <2>2. saving \in Paths
    BY <1>0
  <2> HIDE DEF old
  <2>3. /\ Recorded(old, saving) \in Seq(Paths)
        /\ Len(Recorded(old, saving)) \in Nat /\ Len(Recorded(old, saving)) > 0
        /\ Recorded(old, saving)[Len(Recorded(old, saving))] = saving
        /\ \A i, j \in DOMAIN Recorded(old, saving) :
             Recorded(old, saving)[i] = Recorded(old, saving)[j] => i = j
        /\ \A i \in DOMAIN Recorded(old, saving) :
             Recorded(old, saving)[i] = saving \/ \E j \in DOMAIN old : Recorded(old, saving)[i] = old[j]
    BY ONLY <2>1, <2>2, RecordedProps, Zenon
  <2> QED BY <2>3 DEF old
<1>2. \A i \in DOMAIN list : list[i][1] = name
  BY <1>0, <1>1 DEF KeptOK
<1>3. LoopOK' /\ SessionOK' /\ FilesOK'
  BY TrainingAssumption DEF UpdateState, LoopOK, SessionOK, FilesOK, PCs, InEpoch, SavePCs, Running
<1>4. NamesOK'
  BY <1>0 DEF UpdateState, NamesOK
<1>5. latest'[name] = saving /\ saving' = saving /\ pc' = "delete" /\ UNCHANGED <<ret, files>>
  BY <1>0 DEF UpdateState, NamesOK
<1>6. CASE Limit(name) = 0
  <2>1. UNCHANGED <<kept, doomed>>
    BY <1>6 DEF UpdateState
  <2>2. KeptOK'
    BY <2>1 DEF KeptOK
  <2>3. Range(doomed') = {}
    BY <1>0, <2>1 DEF Range
  <2>4. SavingOK'
    BY <1>0, <1>5, <2>3 DEF SavingOK, SavePCs, UpdateState
  <2> QED BY <1>3, <1>4, <2>2, <2>4
<1>7. CASE Limit(name) # 0 /\ Len(list) > Limit(name)
  <2>1. kept' = [kept EXCEPT ![name] = Tail(list)] /\ doomed' = <<Head(list)>>
    BY <1>7 DEF UpdateState
  <2>2. Limit(name) \in Nat
    BY TrainingAssumption DEF Limit
  <2>3. Len(list) > 1 /\ list # <<>>
    BY <1>1, <1>7, <2>2
  <2> HIDE DEF list, name
  <2>4. /\ Tail(list) \in Seq(Paths) /\ DOMAIN Tail(list) = 1..(Len(list) - 1)
        /\ \A i \in DOMAIN Tail(list) : i + 1 \in DOMAIN list /\ Tail(list)[i] = list[i + 1]
        /\ Head(list) = list[1] /\ 1 \in DOMAIN list /\ Len(list) \in DOMAIN list
    BY <1>1, <2>3
  <2>5. /\ \A i, j \in DOMAIN Tail(list) : Tail(list)[i] = Tail(list)[j] => i = j
        /\ \A i \in DOMAIN Tail(list) : Tail(list)[i][1] = name
    BY <1>1, <1>2, <2>4
  <2>6. Head(list) # saving /\ Head(list)[1] = name
    BY <1>1, <1>2, <2>3, <2>4
  <2>7. KeptOK'
    BY <1>0, <2>1, <2>4, <2>5 DEF KeptOK
  <2>8. Range(doomed') = {Head(list)}
    BY <2>1 DEF Range
  <2>9. SavingOK'
    BY <1>0, <1>5, <2>6, <2>8 DEF SavingOK, SavePCs, name
  <2> QED BY <1>3, <1>4, <2>7, <2>9
<1>8. CASE Limit(name) # 0 /\ ~(Len(list) > Limit(name))
  <2>1. kept' = [kept EXCEPT ![name] = list] /\ UNCHANGED doomed
    BY <1>8 DEF UpdateState
  <2> HIDE DEF list
  <2>2. KeptOK'
    BY <1>0, <1>1, <1>2, <2>1 DEF KeptOK
  <2>3. Range(doomed') = {}
    BY <1>0, <2>1 DEF Range
  <2>4. SavingOK'
    BY <1>0, <1>5, <2>3 DEF SavingOK, SavePCs
  <2> QED BY <1>3, <1>4, <2>2, <2>4
<1> QED BY <1>6, <1>7, <1>8

\* What is deleted is not named by a state file.
LEMMA SaveDeleteOld == ASSUME SaveInv, DeleteOld PROVE SaveInv'
<1> USE TrainingAssumption DEF SaveInv, cache, loop
<1>0. /\ pc = "delete" /\ pc' = ret /\ ret \in {"batch", "dev", "stop", "epoch"}
      /\ saving \in DOMAIN files /\ saving \in Paths /\ doomed' = <<>>
      /\ UNCHANGED <<ret, session, latest, kept, saving>>
  BY DEF DeleteOld, SavingOK, SavePCs, LoopOK
<1>1. /\ DOMAIN files' = DOMAIN files \ Range(doomed)
      /\ \A p \in DOMAIN files' : files'[p] = files[p]
  BY DEF DeleteOld, Restrict
<1>2. FilesOK'
  BY <1>1 DEF FilesOK
<1>3. \A n \in Savers : latest[n] # None => latest[n] \notin Range(doomed)
  BY <1>0 DEF SavingOK, NamesOK
<1>4. NamesOK'
  BY <1>0, <1>1, <1>3 DEF NamesOK
<1>5. KeptOK'
  BY <1>0 DEF KeptOK
<1>6. LoopOK'
  BY <1>0 DEF DeleteOld, LoopOK, PCs, InEpoch, SavePCs
<1>7. SessionOK'
  BY <1>0 DEF SessionOK, Running
<1>8. SavingOK'
  BY <1>0 DEF SavingOK, SavePCs
<1> QED BY <1>2, <1>4, <1>5, <1>6, <1>7, <1>8

\* Steps that save nothing and do not touch the session.
LEMMA SaveControl ==
    ASSUME SaveInv, EpochStart \/ GeneratorFails \/ CacheFinish \/ Decide
    PROVE  SaveInv'
<1> USE TrainingAssumption DEF SaveInv, saver, disk, cache, loop
<1>0. UNCHANGED <<same_dir, runs, session, best_dev_loss, dev_losses, epochs_without_improvement,
                  saving, kept, doomed, ret, files, latest, cache_for_epochs, lock>>
  BY DEF EpochStart, GeneratorFails, CacheFinish, Decide
<1>1. FilesOK' /\ NamesOK' /\ KeptOK'
  BY <1>0, DiskKept
<1>2. SessionOK'
  BY <1>0 DEF EpochStart, GeneratorFails, CacheFinish, Decide, SessionOK, Running
<1>3. SavingOK'
  BY <1>0 DEF EpochStart, GeneratorFails, CacheFinish, Decide, SavingOK, SavePCs
<1>4. epoch' \in 0..Epochs[runs'] /\ k' \in 0..Steps
  BY <1>0 DEF EpochStart, GeneratorFails, CacheFinish, Decide, LoopOK, InEpoch
<1>5. pc' \in PCs /\ (InEpoch' => epoch' < Epochs[runs'])
  BY <1>0 DEF EpochStart, InRange, GeneratorFails, CacheFinish, Decide, LoopOK, PCs, InEpoch, SavePCs
<1>6. box' \in BOOLEAN /\ data' \in 0..Steps /\ cached' \in NoIndex..Steps
  <2>1. CASE EpochStart
    BY SMTT(30), <2>1 DEF EpochStart, LoopOK, NoIndex
  <2>2. CASE Decide
    BY <2>2 DEF Decide, LoopOK
  <2>3. CASE GeneratorFails
    <3>1. cached' = cached /\ box' = TRUE /\ (data' = data \/ data' \in k..Steps)
      BY <2>3 DEF GeneratorFails
    <3>2. k \in 0..Steps /\ data \in 0..Steps /\ cached \in NoIndex..Steps
      BY DEF LoopOK
    <3> QED BY <3>1, <3>2
  <2>4. CASE CacheFinish
    <3>1. cached' = data /\ UNCHANGED <<box, data>>
      BY <2>4 DEF CacheFinish
    <3>2. box \in BOOLEAN /\ data \in 0..Steps
      BY DEF LoopOK
    <3>3. 0..Steps \subseteq NoIndex..Steps
      BY DEF NoIndex
    <3> QED BY <3>1, <3>2, <3>3
  <2> QED BY <2>1, <2>2, <2>3, <2>4
<1>7. LoopOK'
  BY <1>0, <1>4, <1>5, <1>6 DEF LoopOK
<1> QED BY <1>1, <1>2, <1>3, <1>7

\* A batch updates the session; a checkpoint may be due.
LEMMA SaveBatch == ASSUME SaveInv, Batch PROVE SaveInv'
<1> USE TrainingAssumption DEF SaveInv, disk, cache, loop
<1>0. /\ pc = "batch" /\ session \in Ckpts
      /\ UNCHANGED <<same_dir, runs, epoch, kept, doomed, files, latest, box, cache_for_epochs, data,
                     cached, lock, best_dev_loss, dev_losses, epochs_without_improvement>>
  BY DEF Batch, SessionOK, Running
<1>1. FilesOK' /\ NamesOK' /\ KeptOK'
  BY <1>0, DiskKept
<1>2. PICK l \in AllLosses : session' = [session EXCEPT !.step = @ + 1, !.loss = l]
  BY DEF Batch
<1>a. /\ session'.step = session.step + 1 /\ session'.loss = l /\ session'.lr = session.lr
      /\ session' = [step |-> session'.step, loss |-> session'.loss, lr |-> session'.lr]
  BY <1>0, <1>2 DEF Ckpts
<1>3. session' \in Ckpts
  BY <1>0, <1>a DEF Ckpts
<1>4. SessionOK'
  BY <1>3 DEF SessionOK, Ckpts
<1>5. k' \in 0..Steps
  BY SMTT(30) DEF Batch, LoopOK
<1>6. \/ pc' \in {"down", "batch"} /\ UNCHANGED <<saving, ret>>
      \/ pc' = "write" /\ ret' = "batch" /\ saving' \in Paths
  BY <1>0 DEF Batch, Paths, Savers, Ckpts
<1>7. LoopOK'
  BY <1>0, <1>5, <1>6 DEF LoopOK, PCs, InEpoch, SavePCs
<1>8. SavingOK'
  BY <1>0, <1>6 DEF SavingOK, SavePCs
<1> QED BY <1>1, <1>4, <1>7, <1>8

\* The end of a pass, and the validation, start a save or none.
LEMMA SaveEpochEnd == ASSUME SaveInv, EpochEnd \/ Validate PROVE SaveInv'
<1> USE TrainingAssumption DEF SaveInv, disk, cache, loop
<1>0. /\ pc \in {"batch", "dev"} /\ session \in Ckpts
      /\ UNCHANGED <<same_dir, runs, epoch, k, kept, doomed, files, latest, box, session,
                     cache_for_epochs, data, cached, lock>>
  BY DEF EpochEnd, Validate, SessionOK, Running
<1>1. FilesOK' /\ NamesOK' /\ KeptOK'
  BY <1>0, DiskKept
<1>2. \/ pc' \in {"down", "stop"} /\ UNCHANGED <<saving, ret>>
      \/ pc' = "write" /\ ret' \in {"dev", "stop"} /\ saving' \in Paths
  BY <1>0 DEF EpochEnd, Validate, Paths, Savers, Ckpts
<1>3. SessionOK'
  BY <1>0, <1>2 DEF SessionOK, Running
<1>4. SavingOK'
  BY <1>0, <1>2 DEF SavingOK, SavePCs
<1>6. /\ best_dev_loss' \in AllLosses \cup {Infinite} /\ dev_losses' \in Seq(AllLosses)
      /\ epochs_without_improvement' \in Nat
  <2>1. session.loss \in AllLosses
    BY <1>0 DEF Ckpts
  <2>2. CASE EpochEnd \/ (Validate /\ box)
    BY <2>2 DEF EpochEnd, Validate, LoopOK
  <2>3. CASE Validate /\ ~box
    <3>1. dev_losses' \in Seq(AllLosses)
      <4>1. dev_losses' = Append(dev_losses, session.loss)
        BY <2>3 DEF Validate
      <4> QED BY <2>1, <4>1 DEF LoopOK
    <3>2. epochs_without_improvement' \in Nat
      BY <2>3 DEF Validate, LoopOK, Counted
    <3>3. best_dev_loss' \in AllLosses \cup {Infinite}
      BY <2>1, <2>3 DEF Validate, LoopOK
    <3> QED BY <3>1, <3>2, <3>3
  <2> QED BY <2>2, <2>3
<1>7. LoopOK'
  BY <1>0, <1>2, <1>6 DEF LoopOK, PCs, InEpoch, SavePCs
<1> QED BY <1>1, <1>3, <1>4, <1>7

\* The end of a process, and a new one, keep the disk and forget the rest.
LEMMA SaveForget == ASSUME SaveInv, Crash \/ Interrupt \/ Restart PROVE SaveInv'
<1> USE TrainingAssumption DEF SaveInv, disk, cache
<1>0. /\ Forget /\ UNCHANGED <<files, latest, same_dir, cache_for_epochs, cached>>
      /\ pc' \in {"down", "done", "load"} /\ runs' \in 1..MaxRuns /\ lock' \in BOOLEAN
  BY SMTT(30) DEF Crash, Interrupt, Restart, LoopOK
<1>1. FilesOK' /\ NamesOK'
  BY <1>0 DEF FilesOK, NamesOK
<1>2. KeptOK'
  <2>1. <<>> \in Seq(Paths) /\ DOMAIN <<>> = {}
    OBVIOUS
  <2>2. kept' = [n \in Savers |-> <<>>]
    BY <1>0 DEF Forget
  <2> QED BY <2>1, <2>2 DEF KeptOK
<1>3. epoch' \in 0..Epochs[runs'] /\ k' \in 0..Steps /\ data' \in 0..Steps /\ dev_losses' \in Seq(AllLosses)
  BY <1>0 DEF Forget
<1>4. LoopOK'
  BY <1>0, <1>3 DEF Forget, LoopOK, PCs, InEpoch, SavePCs
<1>5. SessionOK'
  BY <1>0 DEF Forget, SessionOK, Running, Fresh
<1>6. SavingOK'
  BY <1>0 DEF Forget, SavingOK, SavePCs
<1> QED BY <1>1, <1>2, <1>4, <1>5, <1>6

LEMMA SaveStep == SaveInv /\ [Next]_vars => SaveInv'
<1> SUFFICES ASSUME SaveInv, [Next]_vars PROVE SaveInv'
  OBVIOUS
<1>1. CASE Next
  BY <1>1, SaveLoad, SaveReload, SaveWrite, SaveUpdateState, SaveDeleteOld, SaveControl, SaveBatch,
     SaveEpochEnd, SaveForget DEF Next
<1>2. CASE UNCHANGED vars
  <2> USE <1>2 DEF vars, loop, saver, disk, cache, SaveInv
  <2>1. FilesOK' /\ NamesOK' /\ KeptOK'
    BY DiskKept
  <2>2. LoopOK' /\ SessionOK' /\ SavingOK'
    BY DEF LoopOK, SessionOK, SavingOK, InEpoch, Running
  <2> QED BY <2>1, <2>2
<1> QED BY <1>1, <1>2

\* Every reachable state satisfies the inductive invariant of loop and checkpoints.
THEOREM SaveInvariant == Spec => []SaveInv
BY SaveInit, SaveStep, PTL DEF Spec

\* Wherever a save is cut short, the checkpoint state files name checkpoints that
\* are there, although a plateau makes the Saver use names of earlier ones again.
THEOREM CheckpointsNamed == Spec => []CheckpointInv
<1>1. SaveInv => CheckpointInv
  <2> SUFFICES ASSUME SaveInv PROVE CheckpointInv
    OBVIOUS
  <2>1. TypeOK
    BY DEF SaveInv, LoopOK, SessionOK, FilesOK, TypeOK, PCs, Paths, Ckpts
  <2>2. StateNamesFiles
    BY DEF SaveInv, NamesOK, StateNamesFiles
  <2> QED BY <2>1, <2>2 DEF CheckpointInv
<1> QED BY <1>1, SaveInvariant, PTL
-----------------------------------------------------------------------------
(* The age of the feature cache *)

\* The remainder of the next number.
LEMMA ModNext ==
    ASSUME NEW e \in Nat, NEW c \in Nat \ {0}
    PROVE  /\ e % c \in 0..(c - 1)
           /\ (e + 1) % c # 0 => (e + 1) % c = (e % c) + 1
<1> DEFINE q == e \div c
           r == e % c
           q1 == (e + 1) \div c
           r1 == (e + 1) % c
<1>1. q \in Int /\ r \in Int /\ e = c * q + r /\ 0 <= r /\ r < c
  OBVIOUS
<1>2. q1 \in Int /\ r1 \in Int /\ e + 1 = c * q1 + r1 /\ 0 <= r1 /\ r1 < c
  OBVIOUS
<1>3. ASSUME r1 # 0 PROVE r1 = r + 1
  <2> HIDE DEF q, r, q1, r1
  <2>1. c * (q1 - q) = (r + 1) - r1
    <3>1. c * (q1 - q) = c * q1 - c * q
      BY <1>1, <1>2
    <3> QED BY <1>1, <1>2, <3>1
  <2>2. CASE q1 - q >= 1
    <3>1. c * (q1 - q) >= c
      <4>1. c * ((q1 - q) - 1) >= 0
        BY <1>1, <1>2, <2>2
      <4>2. c * ((q1 - q) - 1) = c * (q1 - q) - c
        BY <1>1, <1>2
      <4>3. c * (q1 - q) \in Int
        BY <1>1, <1>2
      <4> QED BY <4>1, <4>2, <4>3
    <3> QED BY <1>1, <1>2, <1>3, <2>1, <3>1
  <2>3. CASE q1 - q <= -1
    <3>1. c * (q1 - q) <= -c
      <4>1. c * ((q - q1) - 1) >= 0
        BY <1>1, <1>2, <2>3
      <4>2. c * ((q - q1) - 1) = -(c * (q1 - q)) - c
        BY <1>1, <1>2
      <4>3. c * (q1 - q) \in Int
        BY <1>1, <1>2
      <4> QED BY <4>1, <4>2, <4>3
    <3> QED BY <1>1, <1>2, <1>3, <2>1, <3>1
  <2>4. CASE q1 - q = 0
    BY <1>1, <1>2, <2>1, <2>4
  <2> QED BY <1>1, <1>2, <2>2, <2>3, <2>4
<1> QED BY <1>1, <1>3

\* Features age by one epoch at a time, and epoch 0 of a run always expires them.
LEMMA CacheStep == SaveInv /\ CacheInv /\ [Next]_vars => CacheInv'
<1> SUFFICES ASSUME SaveInv, CacheInv, [Next]_vars PROVE CacheInv'
  OBVIOUS
<1> USE TrainingAssumption DEF SaveInv, LoopOK
<1>0. age \in Nat /\ epoch \in Nat /\ cache_for_epochs \in Nat
  BY DEF CacheInv
<1>b. cache_for_epochs' = cache_for_epochs
  BY DEF Next, Load, Reload, EpochStart, Batch, GeneratorFails, CacheFinish, EpochEnd, Validate, Decide,
         Write, UpdateState, DeleteOld, Crash, Interrupt, Restart, vars, cache
<1>a. cache_for_epochs > 0 =>
        /\ epoch % cache_for_epochs \in 0..(cache_for_epochs - 1)
        /\ (epoch + 1) % cache_for_epochs # 0 =>
             (epoch + 1) % cache_for_epochs = (epoch % cache_for_epochs) + 1
        /\ 0 % cache_for_epochs = 0
  <2> SUFFICES ASSUME cache_for_epochs > 0
               PROVE  /\ epoch % cache_for_epochs \in 0..(cache_for_epochs - 1)
                      /\ (epoch + 1) % cache_for_epochs # 0 =>
                           (epoch + 1) % cache_for_epochs = (epoch % cache_for_epochs) + 1
                      /\ 0 % cache_for_epochs = 0
    OBVIOUS
  <2>1. cache_for_epochs \in Nat \ {0}
    BY <1>0
  <2>2. 0 % cache_for_epochs = 0
    BY <2>1
  <2> QED BY <1>0, <2>1, <2>2, ModNext
<1> HIDE DEF SaveInv, LoopOK
<1>1. CASE EpochStart
  <2>1. CASE pc' = "batch"
    <3> DEFINE index == IF Expired THEN NoIndex ELSE cached
    <3>1. pc = "epoch" /\ epoch' = epoch /\ age' = IF index # NoIndex THEN age + 1 ELSE 1
      BY <1>1, <2>1 DEF EpochStart
    <3>2. age' \in Nat
      BY <1>0, <3>1
    <3>3. ASSUME cache_for_epochs > 0
          PROVE  age' <= (epoch % cache_for_epochs) + 1 /\ age' <= cache_for_epochs
      <4>1. CASE index # NoIndex
        <5>1. epoch % cache_for_epochs # 0 /\ age <= epoch % cache_for_epochs
          BY <3>1, <3>3, <4>1 DEF Expired, CacheInv, Between
        <5> QED BY <1>0, <1>a, <3>1, <3>3, <4>1, <5>1
      <4>2. CASE index = NoIndex
        BY <1>0, <1>a, <3>1, <3>3, <4>2
      <4> QED BY <4>1, <4>2
    <3> QED BY <1>b, <2>1, <3>1, <3>2, <3>3 DEF CacheInv, InEpoch, Between, SavePCs
  <2>2. CASE pc' # "batch"
    <3>1. pc' \in {"done", "down"} /\ age' = age
      BY <1>1, <2>2 DEF EpochStart, cache
    <3> QED BY <1>b, <3>1 DEF CacheInv, InEpoch, Between, SavePCs
  <2> QED BY <2>1, <2>2
<1>2. CASE Load \/ Crash \/ Interrupt \/ Restart
  <2>1. age' = age /\ (pc' = "down" \/ epoch' = 0) /\ pc' \in {"down", "done", "epoch", "load"}
    BY <1>2 DEF Load, Crash, Interrupt, Restart, Forget, cache
  <2> QED BY <1>0, <1>a, <1>b, <2>1 DEF CacheInv, InEpoch, Between, SavePCs
<1>3. CASE Decide \/ Reload
  <2>1. /\ age' = age /\ InEpoch
        /\ \/ pc' \in {"down", "done"} /\ epoch' = epoch
           \/ pc' = "plateau" /\ epoch' = epoch
           \/ pc' = "epoch" /\ epoch' = epoch + 1
           \/ pc' = "write" /\ ret' = "epoch" /\ epoch' = epoch + 1
    BY <1>3 DEF Decide, Reload, PlateauSave, cache, InEpoch
  <2> QED BY <1>0, <1>a, <1>b, <2>1 DEF CacheInv, InEpoch, Between, SavePCs
<1>4. CASE Write \/ UpdateState \/ DeleteOld \/ GeneratorFails \/ CacheFinish \/ UNCHANGED vars
  <2>1. /\ age' = age /\ epoch' = epoch /\ ret' = ret
        /\ \/ pc \in SavePCs /\ pc' \in SavePCs
           \/ pc \in SavePCs /\ pc' = ret
           \/ pc' = pc
    BY <1>4 DEF Write, UpdateState, DeleteOld, GeneratorFails, CacheFinish, vars, cache, saver, SavePCs
  <2>2. ret \in {"load", "batch", "dev", "stop", "epoch"}
    BY DEF SaveInv, LoopOK
  <2> QED BY <1>b, <2>1, <2>2 DEF CacheInv, InEpoch, Between, SavePCs
<1>5. CASE Batch \/ EpochEnd \/ Validate
  <2>1. /\ age' = age /\ epoch' = epoch /\ InEpoch
        /\ \/ pc' \in {"batch", "stop", "down"}
           \/ pc' = "write" /\ ret' \in {"batch", "dev", "stop"}
    BY <1>5 DEF Batch, EpochEnd, Validate, cache, InEpoch
  <2> QED BY <1>b, <2>1 DEF CacheInv, InEpoch, Between, SavePCs
<1> QED BY <1>1, <1>2, <1>3, <1>4, <1>5 DEF Next

\* Features of the cache serve at most cache_for_epochs epochs, whatever runs of
\* the program, complete or not, used them.
THEOREM CacheExpiresInTime == Spec => []CacheExpires
<1>1. Init => CacheInv
  <2> SUFFICES ASSUME Init PROVE CacheInv
    OBVIOUS
  <2>1. age = 0 /\ pc = "load" /\ cache_for_epochs \in Nat
    BY TrainingAssumption DEF Init
  <2> QED BY <2>1 DEF CacheInv, InEpoch, Between, SavePCs
<1>2. CacheInv => CacheExpires
  BY DEF CacheInv, CacheExpires
<1> QED BY <1>1, <1>2, CacheStep, SaveInvariant, PTL DEF Spec
-----------------------------------------------------------------------------
(* Whole epochs *)

\* The start of an epoch: an index that an earlier failure left behind is removed,
\* or is one that nothing removes.
LEMMA WholeStart == ASSUME SaveInv, WholeInv, EpochStart PROVE WholeInv'
<1> USE TrainingAssumption DEF WholeInv
<1> DEFINE index == IF Expired THEN NoIndex ELSE cached
<1>0. /\ pc = "epoch" /\ ~box /\ UNCHANGED <<box, runs, epoch, ret, cache_for_epochs>>
      /\ age \in Nat /\ epoch \in Nat /\ runs \in Nat /\ runs >= 1 /\ cache_for_epochs \in Nat
      /\ Steps \in Nat /\ cached \in NoIndex..Steps /\ NoIndex \in Int /\ NoIndex < 0
  BY DEF EpochStart, FailureOK, PassOK, InPass, SavePCs, SaveInv, LoopOK, saver, cache, NoIndex
<1>1. CASE pc' # "batch"
  <2>1. /\ pc' \in {"down", "done"} /\ age' = age /\ (cached' = cached \/ cached' = NoIndex)
    BY <1>1 DEF EpochStart, cache
  <2>2. FailureOK'
    BY <1>0, <2>1 DEF FailureOK
  <2>3. PassOK' /\ EpochsWhole'
    BY <1>0, <2>1 DEF PassOK, EpochsWhole, InPass, SavePCs
  <2> QED BY <2>2, <2>3
<1>2. CASE pc' = "batch" /\ index = NoIndex
  <2>1. cached' = NoIndex /\ k' = 0 /\ data' = Steps /\ age' = 1
    BY <1>2 DEF EpochStart
  <2>2. ~Inherited'
    BY <2>1 DEF Inherited
  <2>3. FailureOK' /\ EpochsWhole'
    BY <1>0, <1>2, <2>1 DEF FailureOK, EpochsWhole, SavePCs
  <2>4. PassOK'
    BY <1>0, <2>1, <2>2 DEF PassOK, Held
  <2> QED BY <2>3, <2>4
<1>3. CASE pc' = "batch" /\ index # NoIndex
  <2>1. /\ cached' = cached /\ cached # NoIndex /\ ~Expired /\ k' = 0 /\ data' = cached /\ age' = age + 1
    BY <1>3 DEF EpochStart
  <2>2. age >= 1 /\ age' > 1 /\ age' \in Nat
    BY <1>0, <2>1 DEF PassOK
  <2>3. cached \in 0..Steps
    BY <1>0, <2>1 DEF NoIndex
  <2>4. cache_for_epochs > 0 => epoch # 0
    <3>1. cache_for_epochs > 0 => 0 % cache_for_epochs = 0
      BY <1>0
    <3> QED BY <2>1, <3>1 DEF Expired
  <2>5. cached # Steps => runs > 1 /\ cache_for_epochs = 0
    BY <1>0, <2>1, <2>4 DEF FailureOK
  <2>6. data' = Held'
    BY <1>0, <2>1, <2>2, <2>5 DEF Held, Inherited
  <2>7. FailureOK' /\ EpochsWhole'
    BY <1>0, <1>3, <2>1, <2>5 DEF FailureOK, EpochsWhole, SavePCs
  <2>8. PassOK'
    BY <1>0, <2>1, <2>2, <2>3, <2>6 DEF PassOK
  <2> QED BY <2>7, <2>8
<1> QED BY <1>1, <1>2, <1>3

\* A process that ends, or a new one.
LEMMA WholeForget == ASSUME SaveInv, WholeInv, Load \/ Crash \/ Interrupt \/ Restart PROVE WholeInv'
<1> USE DEF WholeInv
<1>a. runs \in Nat /\ runs >= 1
  BY DEF SaveInv, LoopOK
<1>0. UNCHANGED <<age, cached, cache_for_epochs>>
  BY DEF Load, Crash, Interrupt, Restart, cache
<1>1. /\ pc' \in {"down", "done", "load"} \/ (pc' = "epoch" /\ epoch' = 0 /\ pc = "load")
      /\ pc' = "load" => runs' > 1
      /\ pc' # "load" => runs' = runs
  <2>1. CASE Load
    BY <2>1 DEF Load
  <2>2. CASE Crash \/ Interrupt
    BY <2>2 DEF Crash, Interrupt
  <2>3. CASE Restart
    BY <1>a, <2>3 DEF Restart
  <2> QED BY <2>1, <2>2, <2>3
<1>2. pc' \in {"load", "epoch"} => ~box'
  <2>1. CASE Load
    BY <2>1 DEF Load, FailureOK, InPass, SavePCs
  <2>2. CASE Crash \/ Interrupt \/ Restart
    BY <2>2 DEF Crash, Interrupt, Restart, Forget
  <2> QED BY <2>1, <2>2
<1>3. FailureOK'
  <2>1. CASE pc' \in {"down", "done"}
    BY <2>1 DEF FailureOK
  <2>2. CASE pc' = "load"
    BY <1>1, <1>2, <2>2 DEF FailureOK
  <2>3. CASE pc' = "epoch"
    <3>1. pc = "load" /\ ~box /\ runs' = runs /\ epoch' = 0
      BY <1>1, <2>3 DEF FailureOK, InPass, SavePCs
    <3> QED BY <1>0, <1>2, <2>3, <3>1 DEF FailureOK
  <2> QED BY <1>1, <2>1, <2>2, <2>3
<1>4. PassOK' /\ EpochsWhole'
  BY <1>0, <1>1 DEF PassOK, EpochsWhole, InPass, SavePCs
<1> QED BY <1>3, <1>4

\* Saves leave the epoch where it is.
LEMMA WholeSave ==
    ASSUME SaveInv, WholeInv, Write \/ UpdateState \/ DeleteOld \/ UNCHANGED vars
    PROVE  WholeInv'
<1> USE DEF WholeInv
<1>0. /\ UNCHANGED <<age, cached, cache_for_epochs, data, k, box, runs, epoch, ret>>
      /\ \/ pc \in SavePCs /\ pc' \in SavePCs
         \/ pc \in SavePCs /\ pc' = ret
         \/ pc' = pc
  BY DEF Write, UpdateState, DeleteOld, vars, saver, cache, SavePCs
<1>1. ret \in {"load", "batch", "dev", "stop", "epoch"} /\ (pc \in SavePCs => ret # "load")
  BY DEF SaveInv, LoopOK, SavingOK
<1>2. /\ InPass' = InPass
      /\ (pc' \in SavePCs /\ ret' = "dev") \/ pc' = "dev" => (pc \in SavePCs /\ ret = "dev") \/ pc = "dev"
  BY <1>0, <1>1 DEF InPass, SavePCs
<1>3. Held' = Held /\ Inherited' = Inherited
  BY <1>0 DEF Held, Inherited
<1>4. PassOK' /\ EpochsWhole'
  BY <1>0, <1>2, <1>3 DEF PassOK, EpochsWhole
<1>5. FailureOK'
  <2>1. CASE pc' = pc
    BY <1>0, <1>2, <2>1 DEF FailureOK
  <2>2. CASE pc \in SavePCs
    BY <1>0, <1>2, <2>2 DEF FailureOK, SavePCs
  <2> QED BY <1>0, <2>1, <2>2
<1> QED BY <1>4, <1>5

\* The pass itself: only an end of the data that no exception caused, after all
\* that the pass has to go through, leads to the checkpoint and the validation.
LEMMA WholePass ==
    ASSUME SaveInv, WholeInv, Batch \/ GeneratorFails \/ CacheFinish \/ EpochEnd
    PROVE  WholeInv'
<1> USE DEF WholeInv
<1>0. /\ UNCHANGED <<age, cache_for_epochs, runs, epoch>> /\ Steps \in Nat /\ age \in Nat
      /\ k \in 0..Steps /\ data \in 0..Steps /\ NoIndex = -1
  BY TrainingAssumption DEF Batch, GeneratorFails, CacheFinish, EpochEnd, cache, SaveInv, LoopOK, PassOK, NoIndex
<1>1. Inherited' = Inherited
  BY <1>0 DEF Inherited
<1>2. CASE Batch
  <2>1. /\ pc = "batch" /\ InPass /\ UNCHANGED <<cached, data, box>> /\ k' = k + 1 /\ k < data
        /\ box => pc' = "down"
        /\ pc' \in {"down", "batch"} \/ (pc' = "write" /\ ret' = "batch")
    BY <1>2 DEF Batch, cache, InPass
  <2>2. FailureOK'
    BY <1>0, <2>1 DEF FailureOK, InPass, SavePCs
  <2>3. PassOK' /\ EpochsWhole'
    BY <1>0, <1>1, <2>1 DEF PassOK, Held, EpochsWhole, InPass, SavePCs
  <2> QED BY <2>2, <2>3
<1>3. CASE GeneratorFails
  <2>1. /\ box' = TRUE /\ UNCHANGED <<pc, k, cached, ret>>
        /\ (pc = "dev" /\ data' = data) \/ (InPass /\ data' \in k..Steps)
    BY <1>3 DEF GeneratorFails, saver
  <2>2. InPass' = InPass
    BY <2>1 DEF InPass
  <2>3. FailureOK'
    BY <2>1, <2>2 DEF FailureOK
  <2>4. PassOK'
    BY <1>0, <2>1, <2>2 DEF PassOK, InPass, SavePCs
  <2>5. EpochsWhole'
    BY <1>0, <1>1, <2>1 DEF EpochsWhole
  <2> QED BY <2>3, <2>4, <2>5
<1>4. CASE CacheFinish
  <2>1. /\ InPass /\ cached = NoIndex /\ cached' = data /\ UNCHANGED <<pc, k, data, ret, box>>
    BY <1>4 DEF CacheFinish, saver
  <2>2. InPass' /\ age = 1 /\ ~Inherited
    BY <1>0, <2>1 DEF InPass, PassOK, Inherited
  <2>3. ~box => data = Steps
    BY <2>1, <2>2 DEF PassOK, Held
  <2>4. FailureOK'
    BY <2>1, <2>2, <2>3 DEF FailureOK
  <2>5. PassOK'
    BY <1>0, <1>1, <2>1, <2>2, <2>3 DEF PassOK, Held
  <2>6. EpochsWhole'
    BY <2>1, <2>2 DEF EpochsWhole, InPass, SavePCs
  <2> QED BY <2>4, <2>5, <2>6
<1>5. CASE EpochEnd
  <2>1. /\ pc = "batch" /\ InPass /\ k = data /\ UNCHANGED <<k, cached, data, box>>
        /\ \/ box /\ pc' = "down"
           \/ ~box /\ pc' = "write" /\ ret' = "dev"
    BY <1>5 DEF EpochEnd, PassOver, cache, InPass
  <2>2. FailureOK' /\ PassOK'
    BY <1>0, <2>1 DEF FailureOK, PassOK, InPass, SavePCs
  <2>3. EpochsWhole'
    BY <1>0, <1>1, <2>1 DEF PassOK, Held, EpochsWhole, SavePCs
  <2> QED BY <2>2, <2>3
<1> QED BY <1>2, <1>3, <1>4, <1>5

\* After the pass: validation, the decision, a plateau.
LEMMA WholeAfter == ASSUME SaveInv, WholeInv, Validate \/ Decide \/ Reload PROVE WholeInv'
<1> USE DEF WholeInv
<1>0. UNCHANGED <<age, cached, cache_for_epochs, data, k, box, runs>>
  BY DEF Validate, Decide, Reload, cache
<1>1. /\ pc \in {"dev", "stop", "plateau"} /\ (box => pc' \in {"down", "done"})
      /\ pc' \in {"down", "done", "stop", "plateau", "epoch"} \/ (pc' = "write" /\ ret' \in {"stop", "epoch"})
  BY DEF Validate, Decide, Reload, PlateauSave, FailureOK, InPass, SavePCs
<1>2. FailureOK'
  BY <1>0, <1>1 DEF FailureOK, InPass, SavePCs
<1>3. PassOK' /\ EpochsWhole'
  BY <1>0, <1>1 DEF PassOK, EpochsWhole, InPass, SavePCs
<1> QED BY <1>2, <1>3

\* Every reachable state satisfies the invariant of passes and their cache.
THEOREM WholeInvariant == Spec => []WholeInv
<1>1. Init => WholeInv
  BY DEF Init, WholeInv, FailureOK, PassOK, EpochsWhole, InPass, SavePCs
<1>2. SaveInv /\ WholeInv /\ [Next]_vars => WholeInv'
  BY WholeStart, WholeForget, WholeSave, WholePass, WholeAfter DEF Next
<1> QED BY <1>1, <1>2, SaveInvariant, PTL DEF Spec

\* A pass that the generator cut short by an exception is neither validated nor
\* saved as the checkpoint of the epoch, and the feature cache it finished serves
\* no later epoch either, unless caches never expire and an earlier run left it.
THEOREM WholeEpochs == Spec => []EpochsWhole
<1>1. WholeInv => EpochsWhole
  BY DEF WholeInv
<1> QED BY <1>1, WholeInvariant, PTL
-----------------------------------------------------------------------------
(* The best checkpoint *)

\* A validation keeps the smallest finite loss.
LEMMA LossesValidate == ASSUME SaveInv, LossesOK, Validate PROVE LossesOK'
<1> USE DEF SaveInv
<1>1. CASE box
  BY <1>1 DEF Validate, LossesOK, loop
<1>2. CASE ~box
  <2> DEFINE l == session.loss
  <2>1. /\ l \in AllLosses /\ l \in Int /\ best_dev_loss \in Int /\ best_dev_loss <= Infinite
        /\ epochs_without_improvement \in Nat /\ dev_losses \in Seq(AllLosses)
    <3>1. l \in AllLosses
      BY DEF Validate, SessionOK, Running, Ckpts
    <3>2. best_dev_loss \in AllLosses \cup {Infinite}
      BY DEF LoopOK
    <3>3. best_dev_loss \in Int /\ best_dev_loss <= Infinite
      BY <3>2, LossTypes DEF NaN, Infinite
    <3> QED BY <3>1, <3>3, LossTypes DEF LoopOK
  <2>2. /\ dev_losses' = Append(dev_losses, l) /\ epochs_without_improvement' = Counted(l)
        /\ best_dev_loss' = IF NewBest(l) THEN l ELSE best_dev_loss
        /\ pc' \in {"write", "stop"}
    BY <1>2 DEF Validate
  <2> HIDE DEF l
  <2>3. /\ DOMAIN dev_losses' = 1..(Len(dev_losses) + 1) /\ Len(dev_losses) \in Nat
        /\ DOMAIN dev_losses = 1..Len(dev_losses)
        /\ dev_losses'[Len(dev_losses) + 1] = l
        /\ \A i \in DOMAIN dev_losses : dev_losses'[i] = dev_losses[i]
    BY <2>1, <2>2
  <2>4. NewBest(l) => l \in Losses /\ l < best_dev_loss /\ l # Infinite
    BY <2>1, LossTypes DEF NewBest, Lt, Infinite
  <2>5. l \in Losses /\ ~NewBest(l) => best_dev_loss <= l
    BY <2>1, LossTypes DEF NewBest, Lt
  <2>6. \A i \in DOMAIN dev_losses' : dev_losses'[i] \in Losses => best_dev_loss' <= dev_losses'[i]
    <3> SUFFICES ASSUME NEW i \in DOMAIN dev_losses', dev_losses'[i] \in Losses
                 PROVE  best_dev_loss' <= dev_losses'[i]
      OBVIOUS
    <3>1. CASE i = Len(dev_losses) + 1
      BY <2>1, <2>2, <2>3, <2>5, <3>1
    <3>2. CASE i # Len(dev_losses) + 1
      <4>1. i \in DOMAIN dev_losses /\ dev_losses'[i] = dev_losses[i]
        BY <2>3, <3>2
      <4>2. best_dev_loss <= dev_losses[i] /\ dev_losses[i] \in Int
        BY <4>1, LossTypes DEF LossesOK
      <4> QED BY <2>1, <2>2, <2>4, <4>1, <4>2
    <3> QED BY <3>1, <3>2
  <2>7. best_dev_loss' # Infinite => /\ best_dev_loss' \in Losses
                                     /\ \E i \in DOMAIN dev_losses' : dev_losses'[i] = best_dev_loss'
    <3>1. CASE NewBest(l)
      BY <2>2, <2>3, <2>4, <3>1
    <3>2. CASE ~NewBest(l)
      <4> SUFFICES ASSUME best_dev_loss # Infinite
                   PROVE  /\ best_dev_loss \in Losses
                          /\ \E i \in DOMAIN dev_losses' : dev_losses'[i] = best_dev_loss
        BY <2>2, <3>2
      <4>1. PICK i \in DOMAIN dev_losses : dev_losses[i] = best_dev_loss
        BY DEF LossesOK
      <4>2. i \in DOMAIN dev_losses' /\ dev_losses'[i] = best_dev_loss
        BY <2>3, <4>1
      <4> QED BY <4>2 DEF LossesOK
    <3> QED BY <3>1, <3>2
  <2>8. epochs_without_improvement' > 0 => best_dev_loss' # Infinite
    <3> SUFFICES ASSUME best_dev_loss' = Infinite PROVE epochs_without_improvement' = 0
      BY <2>1, <2>2 DEF Counted
    <3>1. best_dev_loss = Infinite
      BY <2>2, <2>4
    <3>2. ~Gt(l, Less(best_dev_loss))
      BY <2>1, <3>1, LossTypes DEF Gt, Less, Infinite
    <3> QED BY <2>2, <3>2 DEF Counted
  <2> QED BY <2>2, <2>6, <2>7, <2>8 DEF LossesOK
<1> QED BY <1>1, <1>2

LEMMA LossesStep == SaveInv /\ LossesOK /\ [Next]_vars => LossesOK'
<1> SUFFICES ASSUME SaveInv, LossesOK, [Next]_vars PROVE LossesOK'
  OBVIOUS
<1>1. CASE loop' = loop /\ (pc' # "plateau" \/ pc' = pc)
  BY <1>1 DEF loop, LossesOK
<1>2. CASE Decide
  BY <1>2 DEF Decide, Plateau, loop, LossesOK
<1>3. CASE Load \/ Crash \/ Interrupt \/ Restart
  <2>1. \/ loop' = loop /\ pc' # "plateau"
        \/ /\ best_dev_loss' = Infinite /\ dev_losses' = <<>> /\ epochs_without_improvement' = 0
           /\ pc' # "plateau"
    BY <1>3 DEF Load, Crash, Interrupt, Restart, Forget
  <2> QED BY <1>1, <2>1 DEF LossesOK
<1>4. CASE Validate
  BY <1>4, LossesValidate
<1>5. CASE DeleteOld
  BY <1>1, <1>5 DEF DeleteOld, SaveInv, LoopOK
<1> QED BY <1>1, <1>2, <1>3, <1>4, <1>5 DEF Next, Reload, PlateauSave, Write, UpdateState, EpochStart,
        Batch, GeneratorFails, CacheFinish, EpochEnd, vars

\* What the state file of best_dev names stays what it is when nothing of
\* best_dev is saved.
LEMMA DiskOther ==
    ASSUME SaveInv, DiskOK, UNCHANGED <<same_dir, best_dev_loss, session, files, latest, saving>>,
           Running' => Running, SavingBest' = SavingBest,
           SavingBest' => pc' = pc
    PROVE  DiskOK'
BY DEF DiskOK, IsBest

LEMMA DiskStep == SaveInv /\ LossesOK /\ DiskOK /\ [Next]_vars => DiskOK'
<1> SUFFICES ASSUME SaveInv, LossesOK, DiskOK, [Next]_vars PROVE DiskOK'
  OBVIOUS
<1>1. CASE Load \/ Restart
  <2>1. ~Running' \/ best_dev_loss' = Infinite
    BY <1>1 DEF Load, Restart, Forget, Running
  <2> QED BY <2>1 DEF DiskOK
<1>2. CASE Crash \/ Interrupt
  BY <1>2 DEF Crash, Interrupt, DiskOK, Running
<1>3. CASE EpochStart \/ GeneratorFails \/ CacheFinish \/ Decide \/ UNCHANGED vars
  <2>1. UNCHANGED <<same_dir, best_dev_loss, session, files, latest, saving>>
    BY <1>3 DEF EpochStart, GeneratorFails, CacheFinish, Decide, vars, loop, disk, saver
  <2>2. (Running' => Running) /\ SavingBest' = SavingBest /\ (SavingBest' => pc' = pc)
    BY <1>3, <2>1 DEF EpochStart, GeneratorFails, CacheFinish, Decide, vars, Running, SavingBest
  <2> QED BY <2>1, <2>2, DiskOther
<1>4. CASE Batch
  <2>1. /\ pc = "batch" /\ UNCHANGED <<same_dir, best_dev_loss, files, latest>>
        /\ session'.lr = session.lr
    BY <1>4 DEF Batch, loop, disk, SaveInv, SessionOK
  <2>2. Running /\ ~SavingBest /\ ~SavingBest'
    BY <1>4 DEF Batch, Running, SavingBest
  <2> QED BY <2>1, <2>2 DEF DiskOK, IsBest
<1>5. CASE EpochEnd
  <2>1. pc = "batch" /\ UNCHANGED <<same_dir, best_dev_loss, files, latest, session>>
    BY <1>5 DEF EpochEnd, loop, disk
  <2>2. Running /\ ~SavingBest /\ ~SavingBest'
    BY <1>5 DEF EpochEnd, Running, SavingBest
  <2> QED BY <2>1, <2>2 DEF DiskOK, IsBest
<1>6. CASE Validate
  <2>1. pc = "dev" /\ UNCHANGED <<same_dir, files, latest, session>> /\ Running /\ ~SavingBest
    BY <1>6 DEF Validate, disk, Running, SavingBest
  <2>2. CASE ~box /\ NewBest(session.loss)
    <3>1. best_dev_loss' = session.loss /\ pc' = "write" /\ SavingBest'
      BY <1>6, <2>2 DEF Validate, SavingBest
    <3> QED BY <2>1, <3>1 DEF DiskOK, IsBest
  <2>3. CASE box \/ ~NewBest(session.loss)
    <3>1. best_dev_loss' = best_dev_loss /\ ~SavingBest'
      BY <1>6, <2>3 DEF Validate, SavingBest, loop
    <3> QED BY <2>1, <3>1 DEF DiskOK, IsBest
  <2> QED BY <2>2, <2>3
<1>7. CASE Reload
  <2>0. /\ pc = "plateau" /\ UNCHANGED <<same_dir, best_dev_loss, files, latest>>
        /\ Running /\ ~SavingBest
    BY <1>7 DEF Reload, loop, disk, Running, SavingBest
  <2>1. CASE ~Running' \/ ~same_dir
    BY <2>0, <2>1 DEF DiskOK
  <2>2. CASE Running' /\ same_dir
    <3>1. LoadOrInit(<<"best">>) # {}
      BY <1>7, <2>2 DEF Reload, Running
    <3>2. PICK c \in LoadOrInit(<<"best">>) : session' = [c EXCEPT !.lr = @ + 1] /\ PlateauSave(c)
      BY <1>7, <3>1 DEF Reload
    <3>3. best_dev_loss # Infinite
      BY <2>0 DEF LossesOK
    <3>4. latest["best_dev"] # None /\ IsBest(files[latest["best_dev"]])
      BY <2>0, <2>2, <3>3 DEF DiskOK
    <3>5. c = files[latest["best_dev"]]
      BY <2>2, <3>2, <3>4, LoadedBest DEF Loadable
    <3>6. c \in Ckpts
      BY <3>4, <3>5 DEF SaveInv, FilesOK, NamesOK, Savers
    <3>7. session'.loss = best_dev_loss
      BY <3>2, <3>4, <3>5, <3>6 DEF Ckpts, IsBest
    <3>8. pc' = "write" /\ SavingBest'
      BY <3>2 DEF PlateauSave, SavingBest
    <3> QED BY <2>0, <3>7, <3>8 DEF DiskOK, IsBest
  <2> QED BY <2>1, <2>2
<1>8. CASE Write
  <2>0. /\ pc = "write" /\ pc' = "state" /\ Running
        /\ UNCHANGED <<same_dir, best_dev_loss, latest, session, saving>>
        /\ DOMAIN files' = DOMAIN files \cup {saving}
        /\ \A p \in DOMAIN files' : files'[p] = IF p = saving THEN session ELSE files[p]
    BY <1>8 DEF Write, loop, saver, Running
  <2>1. CASE saving[1] = "best_dev"
    <3>1. SavingBest /\ SavingBest'
      BY <2>0, <2>1 DEF SavingBest
    <3>2. files'[saving] = session
      BY <2>0
    <3> QED BY <2>0, <3>1, <3>2 DEF DiskOK, IsBest
  <2>2. CASE saving[1] # "best_dev"
    <3>1. ~SavingBest /\ ~SavingBest'
      BY <2>0, <2>2 DEF SavingBest
    <3>2. ASSUME latest["best_dev"] # None
          PROVE  files'[latest["best_dev"]] = files[latest["best_dev"]]
      <4>1. latest["best_dev"] \in DOMAIN files /\ latest["best_dev"] # saving
        BY <2>2, <3>2 DEF SaveInv, NamesOK, Savers
      <4> QED BY <2>0, <4>1
    <3> QED BY <2>0, <3>1, <3>2 DEF DiskOK, IsBest
  <2> QED BY <2>1, <2>2
<1>9. CASE UpdateState
  <2>0. /\ pc = "state" /\ pc' = "delete" /\ Running /\ ~SavingBest' /\ saving \in Paths
        /\ UNCHANGED <<same_dir, best_dev_loss, files, session>>
        /\ latest' = [latest EXCEPT ![saving[1]] = saving] /\ latest \in [Savers -> Paths \cup {None}]
    BY <1>9 DEF UpdateState, loop, Running, SavingBest, SaveInv, SavingOK, SavePCs, NamesOK
  <2>1. CASE saving[1] = "best_dev"
    <3>1. latest'["best_dev"] = saving /\ saving # None
      BY <2>0, <2>1 DEF Savers, Paths, None
    <3>2. SavingBest
      BY <2>0, <2>1 DEF SavingBest
    <3> QED BY <2>0, <3>1, <3>2 DEF DiskOK, IsBest
  <2>2. CASE saving[1] # "best_dev"
    <3>1. latest'["best_dev"] = latest["best_dev"] /\ ~SavingBest
      BY <2>0, <2>2 DEF Savers, SavingBest
    <3> QED BY <2>0, <3>1 DEF DiskOK, IsBest
  <2> QED BY <2>1, <2>2
<1>10. CASE DeleteOld
  <2>0. /\ pc = "delete" /\ Running /\ ~SavingBest /\ saving \in Paths
        /\ UNCHANGED <<same_dir, best_dev_loss, latest, session>>
        /\ DOMAIN files' = DOMAIN files \ Range(doomed)
        /\ \A p \in DOMAIN files' : files'[p] = files[p]
    BY <1>10 DEF DeleteOld, Restrict, loop, Running, SavingBest, SaveInv, SavingOK, SavePCs
  <2>1. ~SavingBest'
    BY <1>10 DEF DeleteOld, SavingBest, SaveInv, LoopOK
  <2>2. ASSUME latest["best_dev"] # None
        PROVE  files'[latest["best_dev"]] = files[latest["best_dev"]]
    <3>1. latest["best_dev"] \in DOMAIN files /\ latest["best_dev"] \notin Range(doomed)
      BY <2>0, <2>2 DEF SaveInv, NamesOK, SavingOK, Savers
    <3> QED BY <2>0, <3>1
  <2> QED BY <2>0, <2>1, <2>2 DEF DiskOK, IsBest
<1> QED BY <1>1, <1>2, <1>3, <1>4, <1>5, <1>6, <1>7, <1>8, <1>9, <1>10 DEF Next

\* Every reachable state satisfies the invariant of the best checkpoint.
THEOREM BestInvariant == Spec => []BestInv
<1>1. Init => BestInv
  BY DEF Init, BestInv, LossesOK, DiskOK
<1>2. SaveInv /\ BestInv /\ [Next]_vars => BestInv'
  BY LossesStep, DiskStep DEF BestInv
<1> QED BY <1>1, <1>2, SaveInvariant, PTL DEF Spec

\* The best_dev checkpoint holds the weights of the lowest finite validation loss
\* of the run, plateaus included, and a plateau finds it.
THEOREM BestCheckpointKept == Spec => []BestKept
<1>1. SaveInv /\ BestInv => BestKept
  <2> SUFFICES ASSUME SaveInv, BestInv PROVE BestKept
    OBVIOUS
  <2> USE DEF BestInv
  <2>1. BestIsBest
    <3> SUFFICES ASSUME same_dir, Running, ~SavingBest, Finite # {}
                 PROVE  /\ latest["best_dev"] # None
                        /\ files[latest["best_dev"]].loss = best_dev_loss
                        /\ best_dev_loss \in Finite /\ \A l \in Finite : best_dev_loss <= l
      BY DEF BestIsBest
    <3>1. \A l \in Finite : best_dev_loss <= l
      BY DEF Finite, Range, LossesOK
    <3>2. best_dev_loss # Infinite
      <4>1. PICK l \in Finite : l \in Losses
        BY DEF Finite
      <4> QED BY <3>1, <4>1, LossTypes DEF Infinite
    <3>3. best_dev_loss \in Finite
      BY <3>2 DEF Finite, Range, LossesOK
    <3> QED BY <3>1, <3>2, <3>3 DEF DiskOK, IsBest
  <2>2. PlateauFindsBest
    <3> SUFFICES ASSUME pc = "plateau", same_dir \/ Source["best_dev"] # {}
                 PROVE  Loadable("best_dev") # {}
      BY LoadedBest DEF PlateauFindsBest
    <3>1. CASE ~same_dir
      BY <3>1 DEF Loadable
    <3>2. CASE same_dir
      BY <3>2 DEF Loadable, DiskOK, LossesOK, Running, SavingBest
    <3> QED BY <3>1, <3>2
  <2> QED BY <2>1, <2>2 DEF BestKept
<1> QED BY <1>1, SaveInvariant, BestInvariant, PTL

\* A plateau goes on from the best weights of the run with a learning rate one
\* reduction below the one in use.
THEOREM PlateauRestartsBest == Spec => PlateauRestarts
<1>1. SaveInv /\ BestInv /\ [Next]_vars =>
        [same_dir /\ pc = "plateau" /\ pc' \notin {"down", "done"} =>
           session'.loss = best_dev_loss /\ session'.lr = session.lr + 1]_vars
  <2> SUFFICES ASSUME SaveInv, BestInv, Next, same_dir, pc = "plateau", pc' \notin {"down", "done"}
               PROVE  session'.loss = best_dev_loss /\ session'.lr = session.lr + 1
    OBVIOUS
  <2>1. Reload
    BY DEF Next, Load, EpochStart, Batch, EpochEnd, Validate, Decide, Write, UpdateState, DeleteOld,
           GeneratorFails, CacheFinish, InPass, SavePCs, Crash, Interrupt, Restart
  <2>2. PICK c \in LoadOrInit(<<"best">>) : session' = [c EXCEPT !.lr = @ + 1]
    BY <2>1 DEF Reload
  <2>3. latest["best_dev"] # None /\ IsBest(files[latest["best_dev"]])
    BY DEF BestInv, LossesOK, DiskOK, Running, SavingBest
  <2>4. c = files[latest["best_dev"]]
    BY <2>2, <2>3, LoadedBest DEF Loadable
  <2>5. c \in Ckpts
    BY <2>3, <2>4 DEF SaveInv, FilesOK, NamesOK, Savers
  <2> QED BY <2>2, <2>3, <2>4, <2>5 DEF Ckpts, IsBest
<1>2. SaveInv /\ BestInv /\ [Next]_vars =>
        /\ [same_dir /\ pc = "plateau" /\ pc' \notin {"down", "done"} => session'.loss = best_dev_loss]_vars
        /\ [same_dir /\ pc = "plateau" /\ pc' \notin {"down", "done"} => session'.lr = session.lr + 1]_vars
  BY <1>1
<1> QED BY <1>2, SaveInvariant, BestInvariant, PTL DEF Spec, PlateauRestarts, PlateauUsesBestWeights,
           PlateauLowersRate
-----------------------------------------------------------------------------
(* Early stopping *)

\* A further loss either improves on all before, or the last that did is one
\* entry further back.
LEMMA CountAppend ==
    ASSUME NEW s \in Seq(AllLosses), NEW e \in Nat, NEW b \in Int, NEW l \in AllLosses, NEW f,
           \A i \in DOMAIN s : s[i] \in Losses => b <= s[i],
           b # Infinite => b \in Losses,
           e > 0 => b # Infinite,
           s = <<>> => b = Infinite,
           LastImproved(s, e),
           f = IF Gt(l, Less(b)) THEN e + 1 ELSE 0
    PROVE  LastImproved(Append(s, l), f)
<1> DEFINE n == Len(s)
           t == Append(s, l)
<1>1. /\ n \in Nat /\ DOMAIN s = 1..n /\ DOMAIN t = 1..(n + 1) /\ Len(t) = n + 1 /\ t # <<>>
      /\ t[n + 1] = l /\ \A i \in 1..n : t[i] = s[i] /\ s[i] \in AllLosses
      /\ n = 0 => s = <<>>
  OBVIOUS
<1> HIDE DEF n, t
<1> SUFFICES ASSUME \A i \in DOMAIN t : t[i] \in Losses
             PROVE  f < n + 1 /\ ImprovesIn(t, (n + 1) - f)
  BY <1>1 DEF LastImproved, t
<1>2. l \in Losses /\ l \in Int /\ l # NaN /\ l < Infinite
  <2>1. n + 1 \in DOMAIN t
    BY <1>1
  <2> QED BY <1>1, <2>1, LossTypes
<1>3. \A i \in 1..n : s[i] \in Losses /\ s[i] \in Int /\ s[i] < Infinite /\ b <= s[i]
  <2>1. \A i \in 1..n : i \in DOMAIN t
    BY <1>1
  <2> QED BY <1>1, <2>1, LossTypes
<1>4. Infinite \in Int /\ MinDelta \in Int
  BY TrainingAssumption DEF Infinite
<1>5. CASE ~Gt(l, Less(b))
  <2>1. f = 0 /\ l <= Less(b)
    BY <1>2, <1>4, <1>5 DEF Gt, Less
  <2>2. ASSUME NEW j \in 1..n PROVE t[n + 1] <= t[j] - MinDelta
    <3>1. b # Infinite
      BY <1>3, <1>4
    <3>2. l <= b - MinDelta
      BY <2>1, <3>1 DEF Less
    <3> QED BY <1>1, <1>2, <1>3, <1>4, <3>2
  <2>3. (n + 1) - f = n + 1 /\ (n + 1) - 1 = n /\ f < n + 1
    BY <1>1, <2>1
  <2>4. ImprovesIn(t, n + 1)
    BY <1>1, <1>2, <2>2, <2>3 DEF ImprovesIn
  <2> QED BY <2>3, <2>4
<1>6. CASE Gt(l, Less(b))
  <2>1. f = e + 1
    BY <1>6
  <2>2. s # <<>>
    BY <1>2, <1>4, <1>6 DEF Gt, Less
  <2>3. e < n /\ ImprovesIn(s, n - e)
    BY <1>1, <1>3, <2>2 DEF LastImproved, n
  <2>4. n - e \in 1..n /\ (n + 1) - f = n - e /\ f < n + 1
    BY <1>1, <2>1, <2>3
  <2>5. \A j \in 1..((n - e) - 1) : j \in 1..n
    BY <1>1, <2>4
  <2>6. ImprovesIn(t, n - e)
    BY <1>1, <2>3, <2>4, <2>5 DEF ImprovesIn
  <2> QED BY <2>4, <2>6
<1> QED BY <1>5, <1>6

\* Only a validation and the start of a run write the losses and the count.
LEMMA LoopStep ==
    ASSUME Next
    PROVE  \/ UNCHANGED loop
           \/ dev_losses' = <<>> /\ epochs_without_improvement' = 0
           \/ /\ Validate /\ ~box
              /\ dev_losses' = Append(dev_losses, session.loss)
              /\ epochs_without_improvement' = Counted(session.loss)
<1>1. CASE Load
  BY <1>1 DEF Load, loop
<1>2. CASE Validate
  BY <1>2 DEF Validate, loop
<1>3. CASE Crash \/ Interrupt \/ Restart
  BY <1>3 DEF Crash, Interrupt, Restart, Forget, loop
<1> QED BY <1>1, <1>2, <1>3 DEF Next, EpochStart, Batch, EpochEnd, Decide, Reload, Write, UpdateState,
           DeleteOld, GeneratorFails, CacheFinish

LEMMA CountStep == SaveInv /\ LossesOK /\ CountOK /\ [Next]_vars => CountOK'
<1> SUFFICES ASSUME SaveInv, LossesOK, CountOK, [Next]_vars PROVE CountOK'
  OBVIOUS
<1>1. CASE UNCHANGED loop
  BY <1>1 DEF CountOK, loop
<1>2. CASE dev_losses' = <<>> /\ epochs_without_improvement' = 0
  BY <1>2 DEF CountOK, LastImproved
<1>3. CASE /\ Validate
           /\ dev_losses' = Append(dev_losses, session.loss)
           /\ epochs_without_improvement' = Counted(session.loss)
  <2>1. session.loss \in AllLosses
    BY <1>3 DEF Validate, SaveInv, SessionOK, Running, Ckpts
  <2>2. best_dev_loss \in Int
    BY LossTypes DEF SaveInv, LoopOK, Infinite
  <2>3. /\ dev_losses \in Seq(AllLosses) /\ epochs_without_improvement \in Nat
        /\ dev_losses = <<>> => best_dev_loss = Infinite
    BY DEF SaveInv, LoopOK, LossesOK
  <2>4. LastImproved(Append(dev_losses, session.loss), epochs_without_improvement')
    BY <1>3, <2>1, <2>2, <2>3, CountAppend DEF CountOK, LossesOK, Counted
  <2> QED BY <1>3, <2>4 DEF CountOK
<1> QED BY <1>1, <1>2, <1>3, LoopStep DEF vars, loop

LEMMA LimitStep == SaveInv /\ LimitOK /\ [Next]_vars => LimitOK'
<1> SUFFICES ASSUME SaveInv, LimitOK, [Next]_vars, EarlyStop, EsEpochs > 0
             PROVE  LimitOK'
  BY DEF LimitOK
<1> DEFINE going == Between \/ (InEpoch /\ pc # "stop" /\ ~(pc \in SavePCs /\ ret = "stop"))
<1>0. /\ epochs_without_improvement \in Nat /\ EsEpochs \in Nat
      /\ epochs_without_improvement <= EsEpochs
      /\ going => epochs_without_improvement < EsEpochs
  BY TrainingAssumption DEF SaveInv, LoopOK, LimitOK
<1>1. SUFFICES /\ epochs_without_improvement' \in Nat
               /\ epochs_without_improvement' <= EsEpochs
               /\ going' => epochs_without_improvement' < EsEpochs
  BY DEF LimitOK
<1>2. CASE Load
  <2>1. \/ epochs_without_improvement' = 0
        \/ epochs_without_improvement' = epochs_without_improvement /\ pc' = "down"
    BY <1>2 DEF Load, loop
  <2> QED BY <1>0, <2>1 DEF Between, InEpoch, SavePCs
<1>3. CASE Crash \/ Interrupt \/ Restart
  BY <1>0, <1>3 DEF Crash, Interrupt, Restart, Forget
<1>4. CASE Validate
  <2>1. going /\ ~going'
    BY <1>4 DEF Validate, Between, InEpoch, SavePCs
  <2>2. epochs_without_improvement' \in {0, epochs_without_improvement, epochs_without_improvement + 1}
    BY <1>4 DEF Validate, Counted, loop
  <2> QED BY <1>0, <2>1, <2>2
<1>5. CASE Decide
  <2>1. epochs_without_improvement' = epochs_without_improvement /\ (StopNow => pc' = "done")
    BY <1>5 DEF Decide, loop
  <2>2. ~StopNow => epochs_without_improvement < EsEpochs
    BY <1>0 DEF StopNow
  <2> QED BY <1>0, <2>1, <2>2 DEF Between, InEpoch, SavePCs
<1>6. CASE EpochStart \/ Batch \/ EpochEnd \/ Reload \/ Write \/ UpdateState \/ DeleteOld
           \/ GeneratorFails \/ CacheFinish \/ UNCHANGED vars
  <2>1. UNCHANGED epochs_without_improvement
    BY <1>6 DEF EpochStart, Batch, EpochEnd, Reload, Write, UpdateState, DeleteOld, GeneratorFails,
                CacheFinish, loop, vars
  <2>2. going' => going
    <3>1. CASE EpochStart \/ Batch \/ EpochEnd \/ Reload
      <4>1. pc \in {"epoch", "batch", "plateau"} \/ pc' \in {"down", "done"}
        BY <3>1 DEF EpochStart, Batch, EpochEnd, Reload
      <4> QED BY <4>1 DEF Between, InEpoch, SavePCs
    <3>2. CASE Write \/ UpdateState \/ DeleteOld \/ GeneratorFails \/ CacheFinish \/ UNCHANGED vars
      <4>1. /\ ret' = ret
            /\ \/ pc \in SavePCs /\ pc' \in SavePCs
               \/ pc \in SavePCs /\ pc' = ret
               \/ pc' = pc
        BY <3>2 DEF Write, UpdateState, DeleteOld, GeneratorFails, CacheFinish, vars, saver, SavePCs
      <4>2. ret \in {"load", "batch", "dev", "stop", "epoch"}
        BY DEF SaveInv, LoopOK
      <4> QED BY <4>1, <4>2 DEF Between, InEpoch, SavePCs
    <3> QED BY <1>6, <3>1, <3>2
  <2> QED BY <1>0, <2>1, <2>2
<1> QED BY <1>2, <1>3, <1>4, <1>5, <1>6 DEF Next

\* Every reachable state satisfies the invariant of early stopping.
THEOREM StopInvariant == Spec => []StopInv
<1>1. Init => StopInv
  BY TrainingAssumption DEF Init, StopInv, CountOK, LimitOK, LastImproved
<1>2. SaveInv /\ BestInv /\ StopInv /\ [Next]_vars => StopInv'
  BY CountStep, LimitStep DEF StopInv, BestInv
<1> QED BY <1>1, <1>2, SaveInvariant, BestInvariant, PTL DEF Spec

\* With early stopping no epoch starts after es_epochs epochs in a row without an
\* improvement of more than es_min_delta on all earlier ones, as long as losses are
\* finite and none is es_min_delta below an earlier one exactly.
THEOREM EarlyStopHolds == Spec => []EarlyStopInTime
<1>1. SaveInv /\ StopInv => EarlyStopInTime
  <2> SUFFICES ASSUME SaveInv, StopInv, pc = "batch", EarlyStop, 0 < EsEpochs, EsEpochs <= Len(dev_losses),
                      Range(dev_losses) \subseteq Losses, ~OnTheEdge
               PROVE  \E i \in (Len(dev_losses) - EsEpochs + 1)..Len(dev_losses) : Improves(i)
    BY DEF EarlyStopInTime
  <2> DEFINE n == Len(dev_losses)
             e == epochs_without_improvement
  <2>1. n \in Nat /\ e \in Nat /\ EsEpochs \in Nat
    BY TrainingAssumption DEF SaveInv, LoopOK
  <2>2. dev_losses # <<>> /\ \A i \in DOMAIN dev_losses : dev_losses[i] \in Losses
    BY <2>1 DEF Range
  <2>3. e < n /\ ImprovesIn(dev_losses, n - e)
    BY <2>2 DEF StopInv, CountOK, LastImproved
  <2>4. e < EsEpochs
    BY <2>1 DEF StopInv, LimitOK, InEpoch, SavePCs
  <2> HIDE DEF n, e
  <2>5. n - e \in (n - EsEpochs + 1)..n
    BY <2>1, <2>3, <2>4
  <2>6. Improves(n - e)
    <3> DEFINE m == n - e
    <3>1. m \in DOMAIN dev_losses /\ \A j \in 1..(m - 1) : j \in DOMAIN dev_losses
      BY <2>1, <2>3 DEF n, SaveInv, LoopOK
    <3> HIDE DEF m
    <3>2. dev_losses[m] \in Losses /\ \A j \in 1..(m - 1) : dev_losses[j] \in Losses
      BY <2>2, <3>1
    <3>3. \A j \in 1..(m - 1) : dev_losses[m] <= dev_losses[j] - MinDelta
      BY <2>3, <3>2 DEF ImprovesIn, m
    <3>4. \A j \in 1..(m - 1) : dev_losses[m] # dev_losses[j] - MinDelta
      BY <3>1 DEF OnTheEdge
    <3>5. MinDelta \in Int /\ Losses \subseteq Int
      BY TrainingAssumption, LossTypes
    <3>6. ASSUME NEW j \in 1..(m - 1) PROVE dev_losses[m] < dev_losses[j] - MinDelta
      <4>1. dev_losses[m] \in Int /\ dev_losses[j] \in Int
        BY <3>2, <3>5
      <4>2. dev_losses[m] <= dev_losses[j] - MinDelta /\ dev_losses[m] # dev_losses[j] - MinDelta
        BY <3>3, <3>4
      <4> QED BY <3>5, <4>1, <4>2
    <3> QED BY <3>2, <3>6 DEF Improves, m
  <2> QED BY <2>5, <2>6 DEF n
<1> QED BY <1>1, SaveInvariant, StopInvariant, PTL
=============================================================================
