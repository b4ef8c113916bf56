----------------------------- MODULE SerialProofs ----------------------------
(***************************************************************************)
(* The daemon that does one thing at a time, MaxBusy = 1, and no reviewer  *)
(* waking by command.  SeqInv: the one goroutine that is busy is on the    *)
(* way of its event, and its copies are what the store holds.  From it the *)
(* limit on previews, whatever fails or dies.                              *)
(***************************************************************************)
EXTENDS RoutableProofs

USE DEF TypeOK, DaemonTypeOK, DockerTypeOK, GithubTypeOK, ThreadTypeOK,
        TickTypeOK, WorldTypeOK, daemonVars, dockerVars, githubVars, tickVars,
        worldVars

Sequential == MaxBusy = 1 /\ "wake" \notin Commands

-----------------------------------------------------------------------------
(* The steps of each kind of event, and where its calls return to.         *)

DeploySteps  == {"deploy", "capacity", "put", "publish", "acquire", "clean",
                 "fetchSource", "build", "built", "network", "run", "ready",
                 "isReady", "commit", "fail", "failPut", "tearHost", "tearDelete"}
TearSteps    == {"list", "tearNext", "tearHost", "tearDelete"}
RequestSteps == {"resolve", "touch", "wake", "recreate", "rerun", "probe",
                 "wakePut"}
TickSteps    == {"ps", "scan", "publish", "tearHost", "tearDelete", "recreate",
                 "rerun", "healPut", "healFail", "sleep", "sleepPut"}

Tearing == {"tearHost", "tearDelete"}

OnItsWay(l, lv) ==
  \/ /\ lv.ev \in {"opened", "redeploy"} /\ lv.todo = Nothing
     /\ l \in {"opened", "redeploy"} \cup DeploySteps
     /\ l = "publish" => lv.ret \in {"acquire", "deploy"}
     /\ l \in Tearing => lv.ret = "deploy"
  \/ /\ lv.ev \in {"closed", "destroy"}
     /\ l \in {"closing", "environments"} \cup TearSteps
     /\ l \in {"closing", "environments"} => lv.ev = "closed"
     /\ l \in Tearing => lv.ret = "tearNext"
  \/ /\ lv.ev = "request" /\ lv.todo = Nothing /\ lv.ret = "idle"
     /\ l \in RequestSteps
  \/ /\ lv.ev = "publish" /\ lv.todo = Nothing /\ lv.ret = "idle"
     /\ l = "publish"
  \/ /\ lv.ev = "tick" /\ l \in TickSteps
     /\ l \notin {"ps", "scan"} => lv.ret = "scan"

-----------------------------------------------------------------------------
(* What the store holds for the preview in hand.                           *)

\* The copy is the record.
Same  == {"publish", "acquire", "clean", "fetchSource", "build", "built",
          "network", "run", "touch", "sleep", "sleepPut"}

\* The copy may have a container that the record does not name yet.
Ahead == {"ready", "isReady", "commit", "fail", "failPut", "wake", "recreate",
          "rerun", "probe", "wakePut", "healPut", "healFail"}

InHandSteps == {"capacity", "put"} \cup Same \cup Ahead \cup Tearing

Building == {"acquire", "clean", "fetchSource", "build", "built", "network",
             "run", "ready", "isReady", "commit", "fail", "failPut"}
Waking   == {"wake", "recreate", "rerun", "probe", "wakePut", "healPut",
             "healFail"}

\* p and ret: the copy in hand and where to go on; c: the store's record.
Copied(l, p, ret, c) ==
  /\ l = "capacity" => c = Absent
  /\ l \in {"capacity", "put"} => p = [c EXCEPT !.status = "building"]
  /\ l \in Same => p = c /\ c # Absent
  /\ l \in Ahead => /\ c = [p EXCEPT !.cid = c.cid] /\ c # Absent
                    /\ p.cid = 0 => p = c
  /\ l \in Tearing => c # Absent /\ p.dep = c.dep /\ (ret # "deploy" => p = c)
  /\ l \in Building => c.status = "building"
  /\ l = "publish" => (c.status = "building" <=> ret = "acquire")
  /\ l \in {"touch", "sleep", "sleepPut"} => c.status = "running"
  /\ l \in Waking => c.status \in {"running", "sleeping"}

KeyOf(lv) == <<lv.pr, lv.app>>

\* What is listed is in the store as it was.
Listed(lv, st) == \A k \in Keys : lv.todo[k] # Absent => lv.todo[k] = st[k]

Current(l, lv, st) ==
  /\ Listed(lv, st)
  /\ l \in InHandSteps => lv.todo[KeyOf(lv)] = Absent
  /\ Copied(l, lv.p, lv.ret, st[KeyOf(lv)])

\* Goroutine s may be at step l with locals lv while the store is st.
Fits(s, l, lv, st) ==
  l # "idle" => /\ OnItsWay(l, lv) /\ Current(l, lv, st)
                /\ (s = Loop <=> lv.ev = "tick")

Alone == \A s, t \in Procs : pc[s] # "idle" /\ pc[t] # "idle" => s = t

\* Destroyed is the status of no record.
Whole(st) == \A k \in Keys : st[k] = Absent \/ st[k].status # "destroyed"

SeqInv == /\ Alone /\ Whole(store)
          /\ \A s \in Procs : Fits(s, pc[s], loc[s], store)

-----------------------------------------------------------------------------
(* A step of the goroutine that is busy.                                   *)

LEMMA SeqStep ==
  ASSUME TypeOK, SeqInv, NEW self \in Procs, pc[self] # "idle", Only(self),
         Whole(store'), Fits(self, pc'[self], loc'[self], store')
  PROVE  SeqInv'
<1>1. \A s \in Procs \ {self} : pc'[s] = "idle"
  BY DEF SeqInv, Alone, Only
<1>2. Alone'
  BY <1>1 DEF Alone
<1>3. \A s \in Procs : Fits(s, pc'[s], loc'[s], store')
  BY <1>1 DEF Fits
<1> QED
  BY <1>2, <1>3 DEF SeqInv

\* Of a goroutine that is busy.
LEMMA Busy1 ==
  ASSUME TypeOK, SeqInv, NEW self \in Procs, pc[self] # "idle"
  PROVE  /\ Fits(self, pc[self], loc[self], store) /\ Whole(store)
         /\ OnItsWay(pc[self], loc[self]) /\ Current(pc[self], loc[self], store)
         /\ (self = Loop <=> loc[self].ev = "tick")
BY DEF SeqInv, Fits

LEMMA JumpFits ==
  ASSUME TypeOK, SeqInv, NEW self \in Procs, pc[self] # "idle",
         NEW l, Jump(self, l), loc' = loc, store' = store,
         Fits(self, l, loc[self], store)
  PROVE  SeqInv'
<1>1. Only(self) /\ pc'[self] = l /\ loc'[self] = loc[self]
  BY StayOnly
<1>2. Whole(store')
  BY DEF SeqInv
<1> QED
  BY <1>1, <1>2, SeqStep

\* At the head of a loop nothing is asked of the record in hand.
LEMMA HeadFits ==
  ASSUME NEW s, NEW l \in LoopHeads, NEW lv \in Locals, NEW st, Fits(s, l, lv, st)
  PROVE  Fits(s, l, [lv EXCEPT !.p = Absent], st)
<1> DEFINE new == [lv EXCEPT !.p = Absent]
<1>1. /\ new.ev = lv.ev /\ new.todo = lv.todo /\ new.ret = lv.ret
      /\ new.pr = lv.pr /\ new.app = lv.app
  BY AbsentType, InHand
<1> HIDE DEF new
<1>2. OnItsWay(l, lv) /\ Current(l, lv, st) /\ (s = Loop <=> lv.ev = "tick")
  BY DEF Fits, LoopHeads
<1>3. OnItsWay(l, new)
  BY <1>1, <1>2 DEF OnItsWay
<1>4. Current(l, new, st)
  <2>1. Copied(l, new.p, new.ret, st[KeyOf(new)])
    BY DEF Copied, LoopHeads, Same, Ahead, Tearing, Building, Waking
  <2>2. l \notin InHandSteps
    BY DEF LoopHeads, InHandSteps, Same, Ahead, Tearing
  <2> QED
    BY <1>1, <1>2, <2>1, <2>2 DEF Current, Listed
<1> QED
  BY <1>1, <1>2, <1>3, <1>4 DEF Fits, new

LEMMA IdleFits == \A s, st : Fits(s, "idle", Blank, st)
BY DEF Fits

LEMMA ReturnFits ==
  ASSUME TypeOK, SeqInv, NEW self \in Procs, pc[self] # "idle",
         NEW l, NEW lv \in Locals, Return(self, lv, l), Whole(store'),
         Fits(self, l, lv, store')
  PROVE  SeqInv'
<1> DEFINE new == loc'[self]
<1>1. /\ Only(self)
      /\ \/ pc'[self] = "idle" /\ new = Blank
         \/ pc'[self] = l /\ l \in LoopHeads /\ new = [lv EXCEPT !.p = Absent]
         \/ pc'[self] = l /\ new = lv
  BY ReturnOnly
<1> HIDE DEF new
<1>2. Fits(self, pc'[self], new, store')
  BY <1>1, HeadFits, IdleFits
<1> QED
  BY <1>1, <1>2, SeqStep DEF new

LEMMA PublishThenFits ==
  ASSUME TypeOK, SeqInv, NEW self \in Procs, pc[self] # "idle",
         NEW l, NEW lv \in Locals, PublishThen(self, lv, l), Whole(store'),
         Fits(self, "publish", [lv EXCEPT !.ret = l], store'),
         Fits(self, l, lv, store')
  PROVE  SeqInv'
<1> DEFINE new == loc'[self]
<1>1. /\ Only(self)
      /\ \/ pc'[self] = "publish" /\ new = [lv EXCEPT !.ret = l]
         \/ pc'[self] = "idle" /\ new = Blank
         \/ pc'[self] = l /\ l \in LoopHeads /\ new = [lv EXCEPT !.p = Absent]
         \/ pc'[self] = l /\ new = lv
  BY PublishThenOnly
<1> HIDE DEF new
<1>2. Fits(self, pc'[self], new, store')
  BY <1>1, HeadFits, IdleFits
<1> QED
  BY <1>1, <1>2, SeqStep DEF new

LEMMA ExitFits ==
  ASSUME TypeOK, SeqInv, NEW self \in Procs, pc[self] # "idle",
         Exit(self), Whole(store')
  PROVE  SeqInv'
BY JumpOnly, IdleFits, SeqStep DEF Exit

-----------------------------------------------------------------------------
(* From a step to the next one with the same locals.                       *)

LEMMA BuildOn ==
  ASSUME NEW s, NEW lv \in Locals, NEW st, NEW l \in Building \cap Same,
         NEW m \in (Building \cap Same) \cup {"fail"}, Fits(s, l, lv, st)
  PROVE  Fits(s, m, lv, st)
<1>1. OnItsWay(l, lv) /\ Current(l, lv, st) /\ (s = Loop <=> lv.ev = "tick")
  BY DEF Fits, Building
<1>2. OnItsWay(m, lv)
  BY <1>1 DEF OnItsWay, Building, Same, DeploySteps, TearSteps, RequestSteps,
              TickSteps, Tearing
<1>3. Copied(m, lv.p, lv.ret, st[KeyOf(lv)])
  <2>1. /\ lv.p = st[KeyOf(lv)] /\ lv.p # Absent
        /\ lv.p.status = "building"
    BY <1>1 DEF Current, Copied
  <2>2. m \notin {"capacity", "put", "publish", "touch", "sleep", "sleepPut"}
                   \cup Tearing \cup Waking
    BY DEF Building, Same, Tearing, Waking
  <2>3. lv.p = [lv.p EXCEPT !.cid = lv.p.cid]
    BY DEF Locals, Preview
  <2> QED
    BY <2>1, <2>2, <2>3 DEF Copied
<1>4. m \in InHandSteps => lv.todo[KeyOf(lv)] = Absent
  BY <1>1 DEF Current, InHandSteps
<1> QED
  BY <1>1, <1>2, <1>3, <1>4 DEF Fits, Current

LEMMA ReadyOn ==
  ASSUME NEW s, NEW lv, NEW st, NEW l \in {"ready", "isReady", "fail"},
         NEW m \in {"isReady", "commit", "fail", "failPut"}, Fits(s, l, lv, st)
  PROVE  Fits(s, m, lv, st)
<1>1. OnItsWay(l, lv) /\ Current(l, lv, st) /\ (s = Loop <=> lv.ev = "tick")
  BY DEF Fits
<1>2. OnItsWay(m, lv)
  BY <1>1 DEF OnItsWay, DeploySteps, TearSteps, RequestSteps, TickSteps, Tearing
<1>3. Copied(m, lv.p, lv.ret, st[KeyOf(lv)])
  BY <1>1 DEF Current, Copied, Building, Same, Ahead, Tearing, Waking
<1>4. m \in InHandSteps => lv.todo[KeyOf(lv)] = Absent
  BY <1>1 DEF Current, InHandSteps, Ahead
<1> QED
  BY <1>1, <1>2, <1>3, <1>4 DEF Fits, Current

\* The steps of the other events.
LEMMA OthersOn ==
  ASSUME NEW s, NEW lv, NEW st, NEW l, NEW m, Fits(s, l, lv, st),
         \/ l = "capacity" /\ m = "put"
         \/ l = "tearHost" /\ m = "tearDelete"
         \/ l = "closing" /\ m = "environments"
         \/ l = "wake" /\ m \in {"probe", "recreate"}
         \/ l = "probe" /\ m = "wakePut"
         \/ l = "recreate" /\ m = "rerun"
         \/ l \in {"recreate", "rerun"} /\ s = Loop /\ m = "healFail"
         \/ l = "sleep" /\ m = "sleepPut"
  PROVE  Fits(s, m, lv, st)
<1>1. /\ OnItsWay(l, lv) /\ Current(l, lv, st) /\ (s = Loop <=> lv.ev = "tick")
  BY DEF Fits
<1>2. OnItsWay(m, lv)
  BY <1>1 DEF OnItsWay, DeploySteps, TearSteps, RequestSteps, TickSteps, Tearing
<1>3. Copied(m, lv.p, lv.ret, st[KeyOf(lv)])
  BY <1>1 DEF Current, Copied, Building, Same, Ahead, Tearing, Waking
<1>4. m \in InHandSteps => lv.todo[KeyOf(lv)] = Absent
  BY <1>1 DEF Current, InHandSteps, Same, Ahead, Tearing
<1> QED
  BY <1>1, <1>2, <1>3, <1>4 DEF Fits, Current

-----------------------------------------------------------------------------
(* Writing the record in hand.                                             *)

\* Somewhere else to return to.
LEMMA Going ==
  ASSUME NEW lv \in Locals, NEW ret \in Returns
  PROVE  LET new == [lv EXCEPT !.ret = ret] IN
           /\ new \in Locals /\ new.ret = ret /\ new.p = lv.p
           /\ new.todo = lv.todo /\ new.ev = lv.ev
           /\ new.pr = lv.pr /\ new.app = lv.app
BY DEF Locals

LEMMA InHandAlone ==
  ASSUME TypeOK, SeqInv, NEW self \in Procs, pc[self] \in InHandSteps
  PROVE  /\ pc[self] # "idle" /\ loc[self].todo[Key(self)] = Absent
         /\ Listed(loc[self], store)
         /\ Copied(pc[self], loc[self].p, loc[self].ret, store[Key(self)])
<1>1. pc[self] # "idle"
  BY DEF InHandSteps, Same, Ahead, Tearing
<1> QED
  BY <1>1, Busy1 DEF Current, KeyOf, Key

LEMMA PutWhole ==
  ASSUME TypeOK, Whole(store), NEW k, NEW p, Put(k, p),
         p = Absent \/ p.status # "destroyed"
  PROVE  Whole(store')
BY DEF Whole, Put

LEMMA PutListed ==
  ASSUME TypeOK, SeqInv, NEW self \in Procs, pc[self] \in InHandSteps,
         NEW p, Put(Key(self), p), NEW lv, lv.todo = loc[self].todo
  PROVE  Listed(lv, store')
<1>1. loc[self].todo[Key(self)] = Absent /\ Listed(loc[self], store)
  BY InHandAlone
<1>2. \A k \in Keys : k # Key(self) => store'[k] = store[k]
  BY DEF Put
<1> QED
  BY <1>1, <1>2 DEF Listed

\* The steps that write the copy in hand and go on to publish it.
Writing == {"put", "commit", "failPut", "healPut", "healFail", "sleepPut"}

LEMMA WriteFits ==
  ASSUME TypeOK, SeqInv, NEW self \in Procs, pc[self] \in Writing,
         NEW p \in Preview, p.status # "destroyed", Put(Key(self), p),
         NEW r \in {"acquire", "deploy", "scan"},
         p.status = "building" <=> r = "acquire",
         pc[self] \in {"put", "commit", "failPut"} <=> r # "scan",
         PublishThen(self, [loc[self] EXCEPT !.p = p], r)
  PROVE  SeqInv'
<1> DEFINE lv == [loc[self] EXCEPT !.p = p]
           pub == [lv EXCEPT !.ret = r]
<1>1. /\ lv \in Locals /\ lv.p = p /\ lv.todo = loc[self].todo
      /\ lv.ev = loc[self].ev /\ KeyOf(lv) = Key(self) /\ lv.ret = loc[self].ret
  BY LocalType, InHand DEF KeyOf, Key
<1>2. PublishThen(self, lv, r)
  OBVIOUS
<1> HIDE DEF lv
<1>3. /\ pub \in Locals /\ pub.ret = r /\ pub.p = p /\ pub.todo = loc[self].todo
      /\ pub.ev = loc[self].ev /\ KeyOf(pub) = Key(self)
  <2>1. r \in Returns
    BY DEF Returns, LoopHeads
  <2>2. /\ pub \in Locals /\ pub.ret = r /\ pub.p = lv.p /\ pub.todo = lv.todo
        /\ pub.ev = lv.ev /\ pub.pr = lv.pr /\ pub.app = lv.app
    BY <1>1, <2>1, Going
  <2> HIDE DEF pub
  <2> QED
    BY <1>1, <2>2 DEF KeyOf
<1> HIDE DEF pub
<1>4. /\ pc[self] # "idle" /\ pc[self] \in InHandSteps
      /\ OnItsWay(pc[self], loc[self])
      /\ self = Loop <=> loc[self].ev = "tick"
      /\ Whole(store)
  BY Busy1 DEF InHandSteps, Same, Ahead, Writing
<1>5. /\ r # "scan" => /\ loc[self].ev \in {"opened", "redeploy"}
                       /\ loc[self].todo = Nothing
      /\ r = "scan" => /\ loc[self].ev = "tick" /\ loc[self].ret = "scan"
  BY <1>4 DEF OnItsWay, Writing, DeploySteps, TearSteps, RequestSteps, TickSteps,
              Tearing
<1>6. OnItsWay("publish", pub) /\ OnItsWay(r, lv)
  BY <1>1, <1>3, <1>5 DEF OnItsWay, DeploySteps, TickSteps, Tearing
<1>7. store'[Key(self)] = p /\ p # Absent
  BY KeyType DEF Put, Absent
<1>8. /\ Copied("publish", p, r, p)
      /\ Copied(r, p, loc[self].ret, p)
  BY <1>7 DEF Copied, Same, Ahead, Tearing, Building, Waking
<1>9. Listed(lv, store') /\ Listed(pub, store')
  BY <1>1, <1>3, <1>4, PutListed
<1>10. loc[self].todo[Key(self)] = Absent
  BY <1>4, InHandAlone
<1>11. Current("publish", pub, store') /\ Current(r, lv, store')
  BY <1>1, <1>3, <1>7, <1>8, <1>9, <1>10 DEF Current
<1>12. Fits(self, "publish", pub, store') /\ Fits(self, r, lv, store')
  BY <1>1, <1>3, <1>4, <1>6, <1>11 DEF Fits
<1>13. Whole(store')
  BY <1>4, PutWhole
<1> QED
  BY <1>1, <1>2, <1>4, <1>12, <1>13, PublishThenFits DEF pub

LEMMA PutBuildingFits ==
  ASSUME TypeOK, SeqInv, NEW self \in Procs, PutBuilding(self)
  PROVE  SeqInv'
<1> DEFINE p == loc[self].p
<1>1. /\ pc[self] = "put" /\ Put(Key(self), p)
      /\ PublishThen(self, loc[self], "acquire")
  BY DEF PutBuilding
<1>2. p \in Preview /\ loc[self] \in Locals
  BY LocalType
<1>3. loc[self] = [loc[self] EXCEPT !.p = p]
  BY <1>2 DEF Locals
<1>4. p.status = "building"
  <2>1. Copied("put", p, loc[self].ret, store[Key(self)])
    BY <1>1, InHandAlone DEF InHandSteps
  <2>2. store[Key(self)] \in Preview
    BY KeyType
  <2> QED
    BY <2>1, <2>2 DEF Copied, Preview
<1> HIDE DEF p
<1> QED
  BY <1>1, <1>2, <1>3, <1>4, WriteFits DEF Writing

LEMMA CommitFits ==
  ASSUME TypeOK, SeqInv, NEW self \in Procs, Commit(self) \/ PutFailed(self)
  PROVE  SeqInv'
<1>1. CASE Commit(self)
  <2> DEFINE p == GoLive(loc[self].p, loc[self].sha)
  <2>1. p \in Preview /\ p.status = "running"
    BY LocalType, GoLiveType DEF GoLive, Preview
  <2>2. /\ pc[self] = "commit" /\ Put(Key(self), p)
        /\ PublishThen(self, [loc[self] EXCEPT !.p = p], "deploy")
    BY <1>1 DEF Commit
  <2> HIDE DEF p
  <2> QED
    BY <2>1, <2>2, WriteFits DEF Writing
<1>2. CASE PutFailed(self)
  <2> DEFINE p == [loc[self].p EXCEPT !.status = "failed"]
  <2>1. p \in Preview /\ p.status = "failed"
    BY LocalType DEF Preview, Status
  <2>2. /\ pc[self] = "failPut" /\ Put(Key(self), p)
        /\ PublishThen(self, [loc[self] EXCEPT !.p = p], "deploy")
    BY <1>2 DEF PutFailed
  <2> HIDE DEF p
  <2> QED
    BY <2>1, <2>2, WriteFits DEF Writing
<1> QED
  BY <1>1, <1>2

LEMMA HealFits ==
  ASSUME TypeOK, SeqInv, HealPut \/ HealFail \/ SleepPut
  PROVE  SeqInv'
<1>1. Loop \in Procs /\ loc[Loop].p \in Preview
  BY LoopInProcs, LocalType
<1>2. PICK p \in Preview :
        /\ p.status \in {"running", "failed", "sleeping"}
        /\ HealWrite(p) /\ pc[Loop] \in {"healPut", "healFail", "sleepPut"}
  <2>1. CASE HealPut
    <3>1. LET p == [loc[Loop].p EXCEPT !.status = "running", !.age = 0] IN
            p \in Preview /\ p.status = "running"
      BY <1>1, LivePreview DEF Preview
    <3> QED
      BY <2>1, <3>1 DEF HealPut
  <2>2. CASE HealFail
    <3>1. LET p == [loc[Loop].p EXCEPT !.status = "failed"] IN
            p \in Preview /\ p.status = "failed"
      BY <1>1 DEF Preview, Status
    <3> QED
      BY <2>2, <3>1 DEF HealFail
  <2>3. CASE SleepPut
    <3>1. LET p == [loc[Loop].p EXCEPT !.status = "sleeping"] IN
            p \in Preview /\ p.status = "sleeping"
      BY <1>1 DEF Preview, Status
    <3> QED
      BY <2>3, <3>1 DEF SleepPut
  <2> QED
    BY <2>1, <2>2, <2>3
<1>3. /\ Put(Key(Loop), p)
      /\ PublishThen(Loop, [loc[Loop] EXCEPT !.p = p], "scan")
  BY <1>2 DEF HealWrite
<1> QED
  BY <1>1, <1>2, <1>3, WriteFits DEF Writing

-----------------------------------------------------------------------------
(* The other steps of a deploy and of a teardown.                          *)

LEMMA NextAppFits ==
  ASSUME TypeOK, SeqInv, NEW self \in Procs, NextApp(self)
  PROVE  SeqInv'
<1>1. PICK a \in loc[self].apps :
      LET existing == store[<<loc[self].pr, a>>] IN
       /\ SetLoc(self, [loc[self] EXCEPT
                          !.app = a, !.apps = @ \ {a},
                          !.p = [existing EXCEPT !.status = "building"]])
       /\ Jump(self, IF existing = Absent THEN "capacity" ELSE "put")
  BY DEF NextApp
<1> DEFINE k == <<loc[self].pr, a>>
           p == [store[k] EXCEPT !.status = "building"]
           lv == [loc[self] EXCEPT !.app = a, !.apps = @ \ {a}, !.p = p]
           l == IF store[k] = Absent THEN "capacity" ELSE "put"
<1>2. /\ SetLoc(self, lv) /\ Jump(self, l) /\ pc[self] = "deploy"
      /\ store' = store
  BY <1>1 DEF NextApp
<1>3. /\ lv.pr = loc[self].pr /\ lv.app = a /\ lv.p = p
      /\ lv.todo = loc[self].todo /\ lv.ev = loc[self].ev
      /\ k \in Keys
  BY LocalType DEF Locals, Keys
<1>4. OnItsWay("deploy", loc[self]) /\ Whole(store)
      /\ (self = Loop <=> loc[self].ev = "tick")
  BY <1>2, Busy1
<1>5. loc[self].ev \in {"opened", "redeploy"} /\ loc[self].todo = Nothing
  BY <1>4 DEF OnItsWay, TearSteps, RequestSteps, TickSteps, Tearing
<1>6. Copied(l, p, lv.ret, store[k])
  BY DEF Copied, Same, Ahead, Tearing, Building, Waking
<1> HIDE DEF lv, p
<1>7. Fits(self, l, lv, store)
  BY <1>3, <1>4, <1>5, <1>6
     DEF Fits, OnItsWay, Current, Listed, DeploySteps, Tearing, KeyOf, Nothing
<1> QED
  BY <1>2, <1>4, <1>7, JumpOnly, SeqStep

LEMMA CheckCapacityFits ==
  ASSUME TypeOK, SeqInv, NEW self \in Procs, CheckCapacity(self)
  PROVE  SeqInv'
<1>1. /\ pc[self] = "capacity" /\ store' = store
      /\ Return(self, loc[self], "deploy") \/ Return(self, loc[self], "put")
  BY DEF CheckCapacity
<1>2. /\ Fits(self, "capacity", loc[self], store) /\ Whole(store)
      /\ loc[self] \in Locals
  BY <1>1, Busy1, LocalType
<1>3. Fits(self, "put", loc[self], store)
  BY <1>2, OthersOn
<1>4. Fits(self, "deploy", loc[self], store)
  BY <1>2 DEF Fits, OnItsWay, Current, Copied, Listed, DeploySteps, TearSteps,
              RequestSteps, TickSteps, Tearing, InHandSteps, Same, Ahead,
              Building, Waking
<1> QED
  BY <1>1, <1>2, <1>3, <1>4, ReturnFits

\* A step that ends a deploy of one app, whatever was in hand.
LEMMA BackFits ==
  ASSUME TypeOK, SeqInv, NEW self \in Procs,
         pc[self] \in {"built", "fail"}, store' = store,
         Return(self, loc[self], "deploy")
  PROVE  SeqInv'
<1>1. /\ Fits(self, pc[self], loc[self], store) /\ Whole(store)
      /\ loc[self] \in Locals
  BY Busy1, LocalType
<1>2. Fits(self, "deploy", loc[self], store)
  BY <1>1 DEF Fits, OnItsWay, Current, Copied, Listed, DeploySteps, TearSteps,
              RequestSteps, TickSteps, Tearing, InHandSteps, Same, Ahead,
              Building, Waking
<1> QED
  BY <1>1, <1>2, ReturnFits

\* Publishing: the record gets a Deployment, or stays.
LEMMA AfterPublish ==
  ASSUME TypeOK, SeqInv, NEW self \in Procs, pc[self] = "publish",
         NEW st, Listed(loc[self], st),
         NEW lv \in Locals, lv.ev = loc[self].ev, lv.todo = loc[self].todo,
         lv.ret = loc[self].ret, KeyOf(lv) = Key(self),
         lv.p = st[Key(self)], lv.p # Absent,
         lv.p.status = store[Key(self)].status
  PROVE  Fits(self, loc[self].ret, lv, st)
<1> DEFINE r == loc[self].ret
<1>1. /\ OnItsWay("publish", loc[self]) /\ (self = Loop <=> lv.ev = "tick")
      /\ Copied("publish", loc[self].p, r, store[Key(self)])
      /\ lv.todo[Key(self)] = Absent
  BY Busy1, InHandAlone DEF InHandSteps, Same
<1>2. \/ r \in {"acquire", "deploy"} /\ lv.ev \in {"opened", "redeploy"}
                                     /\ lv.todo = Nothing
      \/ r = "scan" /\ lv.ev = "tick"
      \/ r = "idle"
  BY <1>1 DEF OnItsWay, TearSteps, RequestSteps
<1>3. lv.p = [lv.p EXCEPT !.cid = lv.p.cid]
  BY DEF Locals, Preview
<1>4. Copied(r, lv.p, lv.ret, lv.p)
  BY <1>1, <1>2, <1>3 DEF Copied, Same, Ahead, Tearing, Building, Waking
<1>5. r # "idle" => OnItsWay(r, lv)
  BY <1>2 DEF OnItsWay, DeploySteps, TickSteps, Tearing
<1>6. Current(r, lv, st)
  BY <1>1, <1>4 DEF Current, Listed
<1> QED
  BY <1>1, <1>5, <1>6 DEF Fits

LEMMA PublishFits ==
  ASSUME TypeOK, SeqInv, NEW self \in Procs, Publish(self)
  PROVE  SeqInv'
<1>1. /\ pc[self] = "publish" /\ pc[self] \in InHandSteps /\ Whole(store)
      /\ loc[self] \in Locals /\ loc[self].ret \in Returns
      /\ KeyOf(loc[self]) = Key(self)
  BY Busy1, LocalType DEF Publish, InHandSteps, Same, KeyOf, Key
<1>2. /\ loc[self].p = store[Key(self)] /\ loc[self].p # Absent
      /\ Listed(loc[self], store)
  BY <1>1, InHandAlone DEF Copied, Same
<1>3. CASE CreateDeployment(self, Key(self))
  <2> DEFINE p == [loc[self].p EXCEPT !.dep = FreshDep]
             lv == [loc[self] EXCEPT !.p = p]
  <2>1. /\ p \in Preview /\ p.status = loc[self].p.status /\ p # Absent
    <3>1. /\ FreshDep \in Deps /\ FreshDep # 0
      BY <1>3, FreshDepType, IdsAssumption DEF CreateDeployment
    <3> QED
      BY <3>1, LocalType DEF Preview, Absent
  <2>2. /\ lv \in Locals /\ lv.p = p /\ lv.ev = loc[self].ev
        /\ lv.todo = loc[self].todo /\ lv.ret = loc[self].ret
        /\ KeyOf(lv) = Key(self)
    <3> HIDE DEF p
    <3>1. /\ lv \in Locals /\ lv.p = p /\ lv.ev = loc[self].ev
          /\ lv.todo = loc[self].todo /\ lv.ret = loc[self].ret
          /\ lv.pr = loc[self].pr /\ lv.app = loc[self].app
      BY <1>1, <2>1, InHand
    <3> HIDE DEF lv
    <3> QED
      BY <3>1 DEF KeyOf, Key
  <2>3. Put(Key(self), p) /\ Return(self, lv, loc[self].ret)
    BY <1>3 DEF CreateDeployment
  <2> HIDE DEF lv, p
  <2>4. Listed(loc[self], store') /\ store'[Key(self)] = p
    BY <1>1, <2>3, PutListed, KeyType DEF Put
  <2>5. p.status # "destroyed"
    BY <1>1, <1>2, <2>1, KeyType DEF Whole
  <2>6. Fits(self, loc[self].ret, lv, store')
    BY <1>1, <1>2, <2>1, <2>2, <2>4, AfterPublish
  <2> QED
    BY <1>1, <2>2, <2>3, <2>5, <2>6, PutWhole, ReturnFits
<1>4. CASE SetDeploymentStatus(self, Key(self)) \/ PublishFails(self)
  <2>1. store' = store /\ Return(self, loc[self], loc[self].ret)
    BY <1>4 DEF SetDeploymentStatus, PublishFails
  <2>2. Fits(self, loc[self].ret, loc[self], store)
    BY <1>1, <1>2, AfterPublish
  <2> QED
    BY <1>1, <2>1, <2>2, ReturnFits
<1> QED
  BY <1>3, <1>4 DEF Publish

\* docker run gives the copy in hand a container that the record lacks.
LEMMA RunFits ==
  ASSUME TypeOK, SeqInv, NEW self \in Procs, pc[self] \in {"run", "rerun"},
         NEW k \in Keys, NEW tag, DockerRunOk(self, k, tag), store' = store,
         NEW l \in {"ready", "healPut", "probe"}, Jump(self, l),
         l = "ready" <=> pc[self] = "run",
         l = "healPut" => self = Loop, l = "probe" => self # Loop
  PROVE  SeqInv'
<1> DEFINE p == [loc[self].p EXCEPT !.cid = FreshCid]
           lv == [loc[self] EXCEPT !.p.cid = FreshCid]
<1>1. FreshCid \in Cids /\ FreshCid # 0
  BY FreshCidType, IdsAssumption DEF DockerRunOk
<1>2. /\ p \in Preview /\ p.cid # 0
      /\ loc[self].p \in Preview /\ loc[self] \in Locals
  BY <1>1, LocalType DEF Preview
<1>3. lv = [loc[self] EXCEPT !.p = p] /\ SetLoc(self, lv)
  BY <1>2 DEF Locals, DockerRunOk
<1>4. /\ lv.p = p /\ lv.ev = loc[self].ev /\ lv.todo = loc[self].todo
      /\ lv.ret = loc[self].ret /\ lv.pr = loc[self].pr /\ lv.app = loc[self].app
  <2> HIDE DEF p, lv
  <2> QED
    BY <1>2, <1>3, InHand
<1>5. KeyOf(lv) = Key(self) /\ Key(self) \in Keys
  <2> HIDE DEF lv
  <2> QED
    BY <1>4, KeyType DEF KeyOf, Key
<1>6. /\ pc[self] # "idle" /\ Whole(store) /\ OnItsWay(pc[self], loc[self])
      /\ (self = Loop <=> loc[self].ev = "tick")
      /\ loc[self].todo[Key(self)] = Absent /\ Listed(loc[self], store)
      /\ Copied(pc[self], loc[self].p, loc[self].ret, store[Key(self)])
  BY Busy1, InHandAlone DEF InHandSteps, Same, Ahead
<1>7. OnItsWay(l, lv)
  <2> HIDE DEF lv
  <2> QED
    BY <1>4, <1>6 DEF OnItsWay, DeploySteps, TearSteps, RequestSteps, TickSteps,
                      Tearing
<1>8. Copied(l, lv.p, lv.ret, store[Key(self)])
  <2> DEFINE c == store[Key(self)]
             old == loc[self].p
  <2>1. c \in Preview
    BY <1>5
  <2>2. c = [old EXCEPT !.cid = c.cid]
    BY <1>2, <1>6, <2>1 DEF Copied, Same, Ahead, Preview
  <2>3. c = [p EXCEPT !.cid = c.cid]
    BY <1>2, <2>1, <2>2 DEF Preview
  <2>4. /\ c # Absent
        /\ pc[self] = "run" => c.status = "building"
        /\ pc[self] = "rerun" => c.status \in {"running", "sleeping"}
    BY <1>6 DEF Copied, Same, Ahead, Building, Waking
  <2> HIDE DEF c, p, lv
  <2>5. Copied(l, p, loc[self].ret, c)
    BY <1>2, <2>3, <2>4 DEF Copied, Same, Ahead, Tearing, Building, Waking
  <2> QED
    BY <1>4, <2>5 DEF c
<1> HIDE DEF lv, p
<1>9. Fits(self, l, lv, store)
  BY <1>4, <1>5, <1>6, <1>7, <1>8 DEF Fits, Current, Listed
<1> QED
  BY <1>3, <1>6, <1>9, JumpOnly, SeqStep

\* The branches of deployApp that would tear down a preview whose record is
\* gone: abandoned's second condition never holds of Get.
LEMMA IsReadyFits ==
  ASSUME TypeOK, SeqInv, NEW self \in Procs, IsReady(self)
  PROVE  SeqInv'
<1>1. /\ pc[self] = "isReady" /\ store' = store /\ loc[self] \in Locals
      /\ Fits(self, "isReady", loc[self], store) /\ Whole(store)
  BY Busy1, LocalType DEF IsReady
<1>2. CASE Jump(self, "commit") /\ loc' = loc
  BY <1>1, <1>2, ReadyOn, JumpFits
<1>3. CASE /\ Jump(self, "tearHost")
           /\ SetLoc(self, [loc[self] EXCEPT !.p.img = loc[self].sha,
                                             !.ret = "deploy"])
  <2> DEFINE lv == [loc[self] EXCEPT !.p.img = loc[self].sha, !.ret = "deploy"]
  <2>1. /\ lv.ev = loc[self].ev /\ lv.todo = loc[self].todo /\ lv.ret = "deploy"
        /\ lv.pr = loc[self].pr /\ lv.app = loc[self].app
        /\ lv.p.dep = loc[self].p.dep
    BY <1>1, LocalType DEF Locals, Preview
  <2>2. SetLoc(self, lv)
    BY <1>3
  <2> HIDE DEF lv
  <2>3. KeyOf(lv) = Key(self)
    BY <2>1 DEF KeyOf, Key
  <2>4. /\ OnItsWay("isReady", loc[self])
        /\ (self = Loop <=> loc[self].ev = "tick")
        /\ loc[self].todo[Key(self)] = Absent /\ Listed(loc[self], store)
        /\ Copied("isReady", loc[self].p, loc[self].ret, store[Key(self)])
    BY <1>1, Busy1, InHandAlone DEF InHandSteps, Ahead
  <2>5. store[Key(self)] # Absent /\ loc[self].p.dep = store[Key(self)].dep
    <3>1. store[Key(self)] \in Preview /\ loc[self].p \in Preview
      BY KeyType, LocalType
    <3> QED
      BY <2>4, <3>1 DEF Copied, Ahead, Preview
  <2>6. Copied("tearHost", lv.p, lv.ret, store[Key(self)])
    BY <2>1, <2>5 DEF Copied, Same, Ahead, Tearing, Building, Waking
  <2>7. OnItsWay("tearHost", lv)
    BY <2>1, <2>4 DEF OnItsWay, DeploySteps, TearSteps, RequestSteps,
                      TickSteps, Tearing
  <2>8. Fits(self, "tearHost", lv, store)
    BY <2>1, <2>3, <2>4, <2>6, <2>7 DEF Fits, Current, Listed
  <2> QED
    BY <1>1, <1>3, <2>2, <2>8, JumpOnly, SeqStep
<1> QED
  BY <1>1, <1>2, <1>3 DEF IsReady

\* store.Delete, and on with the next preview.
LEMMA TearDeleteFits ==
  ASSUME TypeOK, SeqInv, NEW self \in Procs, TearDelete(self)
  PROVE  SeqInv'
<1>1. /\ pc[self] = "tearDelete" /\ pc[self] \in InHandSteps
      /\ Put(Key(self), Absent) /\ Return(self, loc[self], loc[self].ret)
      /\ loc[self] \in Locals
  BY LocalType DEF TearDelete, InHandSteps, Tearing
<1>2. /\ OnItsWay("tearDelete", loc[self]) /\ Whole(store)
      /\ (self = Loop <=> loc[self].ev = "tick")
  BY <1>1, Busy1
<1>3. Whole(store') /\ Listed(loc[self], store')
  BY <1>1, <1>2, PutWhole, PutListed
<1> DEFINE r == loc[self].ret
<1>4. OnItsWay(r, loc[self]) /\ r \in {"deploy", "tearNext", "scan"}
  BY <1>2 DEF OnItsWay, DeploySteps, TearSteps, RequestSteps, TickSteps, Tearing
<1> HIDE DEF r
<1>5. Current(r, loc[self], store')
  BY <1>3, <1>4 DEF Current, Copied, InHandSteps, Same, Ahead, Tearing, Building,
                    Waking
<1>6. Fits(self, r, loc[self], store')
  BY <1>2, <1>4, <1>5 DEF Fits
<1> QED
  BY <1>1, <1>3, <1>6, ReturnFits DEF r

LEMMA DeployFits ==
  ASSUME TypeOK, SeqInv, NEW self \in Procs, DeployStep(self)
  PROVE  SeqInv'
<1>0. /\ loc[self] \in Locals
      /\ pc[self] # "idle" => Fits(self, pc[self], loc[self], store)
  BY Busy1, LocalType
<1>1. CASE NextApp(self) \/ CheckCapacity(self) \/ Publish(self)
  BY <1>1, NextAppFits, CheckCapacityFits, PublishFits
<1>2. CASE PutBuilding(self) \/ Commit(self) \/ PutFailed(self)
  BY <1>2, PutBuildingFits, CommitFits
<1>3. CASE IsReady(self) \/ TearDelete(self)
  BY <1>3, IsReadyFits, TearDeleteFits
<1>4. CASE \/ Acquire(self) \/ Clean(self) \/ FetchSource(self)
           \/ BuildImage(self) \/ EnsureNetwork(self)
  <2>1. /\ pc[self] \in Building \cap Same /\ pc[self] # "idle"
        /\ loc' = loc /\ store' = store
        /\ \E m \in (Building \cap Same) \cup {"fail"} : Jump(self, m)
    BY <1>4 DEF Acquire, Clean, FetchSource, BuildImage, EnsureNetwork,
                LeaveBuild, Building, Same
  <2> QED
    BY <1>0, <2>1, BuildOn, JumpFits
<1>5. CASE Built(self)
  <2>1. /\ pc[self] = "built" /\ store' = store
        /\ \/ Return(self, loc[self], "deploy")
           \/ Jump(self, "network") /\ loc' = loc
    BY <1>5 DEF Built
  <2>2. Fits(self, "network", loc[self], store)
    BY <1>0, <2>1, BuildOn DEF Building, Same
  <2> QED
    BY <2>1, <2>2, BackFits, JumpFits
<1>6. CASE Run(self)
  <2>1. CASE DockerRunOk(self, Key(self), loc[self].sha) /\ Jump(self, "ready")
    BY <1>6, <2>1, RunFits, KeyType DEF Run
  <2>2. CASE Jump(self, "fail") /\ loc' = loc
    <3>1. Fits(self, "fail", loc[self], store)
      BY <1>0, <1>6, BuildOn DEF Run, Building, Same
    <3> QED
      BY <1>6, <2>2, <3>1, JumpFits DEF Run
  <2> QED
    BY <1>6, <2>1, <2>2 DEF Run
<1>7. CASE AwaitReady(self)
  <2>1. /\ pc[self] = "ready" /\ store' = store /\ loc' = loc
        /\ Jump(self, "isReady") \/ Jump(self, "fail")
    BY <1>7 DEF AwaitReady
  <2> QED
    BY <1>0, <2>1, ReadyOn, JumpFits
<1>8. CASE RecordFailure(self)
  <2>1. /\ pc[self] = "fail" /\ store' = store
        /\ \/ Return(self, loc[self], "deploy")
           \/ Return(self, loc[self], "failPut")
    BY <1>8 DEF RecordFailure
  <2>2. Fits(self, "failPut", loc[self], store) /\ Whole(store)
    BY <1>0, <2>1, ReadyOn, Busy1
  <2> QED
    BY <1>0, <2>1, <2>2, BackFits, ReturnFits
<1>9. CASE TearHost(self)
  BY <1>0, <1>9, OthersOn, JumpFits DEF TearHost
<1> QED
  BY <1>1, <1>2, <1>3, <1>4, <1>5, <1>6, <1>7, <1>8, <1>9 DEF DeployStep

-----------------------------------------------------------------------------
(* The steps of the handlers.                                              *)

\* Only what todo and apps hold changes, at a step with no record in hand.
LEMMA ListsFit ==
  ASSUME TypeOK, SeqInv, NEW self \in Procs, pc[self] # "idle",
         NEW m \in {"list", "tearNext"}, pc[self] \in {"environments", "list"},
         NEW lv, lv.ev = loc[self].ev, lv.ret = loc[self].ret,
         Listed(lv, store), Jump(self, m), SetLoc(self, lv), store' = store
  PROVE  SeqInv'
<1>1. /\ OnItsWay(pc[self], loc[self]) /\ Whole(store)
      /\ (self = Loop <=> loc[self].ev = "tick")
  BY Busy1
<1>2. OnItsWay(m, lv)
  BY <1>1 DEF OnItsWay, DeploySteps, TearSteps, RequestSteps, TickSteps, Tearing
<1>3. Current(m, lv, store)
  BY DEF Current, Copied, InHandSteps, Same, Ahead, Tearing, Building, Waking
<1>4. Fits(self, m, lv, store)
  BY <1>1, <1>2, <1>3 DEF Fits
<1> QED
  BY <1>1, <1>4, JumpOnly, SeqStep

LEMMA SnapshotListed ==
  ASSUME NEW S, NEW lv, lv.todo = Snapshot(S)
  PROVE  Listed(lv, store)
BY DEF Snapshot, Listed

\* The locals with the next record of a list in hand.
Take(self, k, ret) == [TakeNext(self, k) EXCEPT !.ret = ret]

LEMMA Taken ==
  ASSUME TypeOK, NEW self \in Procs, NEW k \in Pending(self), NEW ret \in Returns
  PROVE  /\ Take(self, k, ret).p = loc[self].todo[k]
         /\ Take(self, k, ret).ret = ret
         /\ Take(self, k, ret).ev = loc[self].ev
         /\ \A x \in Keys : Take(self, k, ret).todo[x] =
                           IF x = k THEN Absent ELSE loc[self].todo[x]
         /\ KeyOf(Take(self, k, ret)) = k
<1> DEFINE t == TakeNext(self, k)
           lv == Take(self, k, ret)
<1>1. /\ t.p = loc[self].todo[k] /\ t.ev = loc[self].ev
      /\ t.todo = [loc[self].todo EXCEPT ![k] = Absent]
      /\ t.pr = k[1] /\ t.app = k[2]
  BY LocalType DEF TakeNext, Locals, Pending
<1>2. t \in Locals /\ lv = [t EXCEPT !.ret = ret]
  BY TakeNextType DEF Pending, Take
<1> HIDE DEF t, lv
<1>3. /\ lv.p = t.p /\ lv.todo = t.todo /\ lv.ret = ret /\ lv.ev = t.ev
      /\ lv.pr = t.pr /\ lv.app = t.app
  BY <1>2 DEF Locals
<1>4. <<k[1], k[2]>> = k
  BY DEF Keys, Pending
<1>5. /\ lv.p = loc[self].todo[k] /\ lv.ret = ret /\ lv.ev = loc[self].ev
      /\ KeyOf(lv) = k
  BY <1>1, <1>3, <1>4 DEF KeyOf
<1>6. \A x \in Keys : lv.todo[x] = IF x = k THEN Absent ELSE loc[self].todo[x]
  BY <1>1, <1>3, LocalType
<1> QED
  BY <1>5, <1>6 DEF lv

\* The next record of a list, for a step l that takes it as it is.
LEMMA TakeNextFits ==
  ASSUME TypeOK, SeqInv, NEW self \in Procs, pc[self] \in {"tearNext", "scan"},
         NEW k \in Pending(self),
         NEW ret, ret = pc[self],
         NEW lv, lv = [TakeNext(self, k) EXCEPT !.ret = ret],
         NEW l \in {"tearHost", "sleep", "recreate", "scan"},
         pc[self] = "tearNext" => l = "tearHost",
         l = "sleep" => loc[self].todo[k].status = "running",
         l = "recreate" => loc[self].todo[k].status \in {"running", "sleeping"},
         Jump(self, l), SetLoc(self, lv), store' = store
  PROVE  SeqInv'
<1>1. /\ pc[self] # "idle"
      /\ k \in Keys /\ loc[self].todo[k] # Absent
      /\ loc[self] \in Locals /\ ret \in Returns
      /\ OnItsWay(pc[self], loc[self]) /\ Whole(store)
      /\ (self = Loop <=> loc[self].ev = "tick")
  BY Busy1, LocalType DEF Pending, Returns, LoopHeads
<1>2. Listed(loc[self], store)
  BY <1>1, Busy1 DEF Current
<1>3. /\ lv.p = loc[self].todo[k] /\ lv.ret = ret /\ lv.ev = loc[self].ev
      /\ \A x \in Keys : lv.todo[x] = IF x = k THEN Absent ELSE loc[self].todo[x]
      /\ KeyOf(lv) = k
  BY <1>1, Taken DEF Take
<1>4. lv.p = store[k] /\ lv.p # Absent
  BY <1>1, <1>2, <1>3 DEF Listed
<1>5. loc[self].todo \in [Keys -> Preview] /\ store[k] \in Preview
  BY <1>1, LocalType
<1>6. Listed(lv, store) /\ lv.todo[k] = Absent
  BY <1>1, <1>2, <1>3, <1>5 DEF Listed
<1>7. OnItsWay(l, lv)
  BY <1>1, <1>3 DEF OnItsWay, DeploySteps, TearSteps, RequestSteps, TickSteps,
                    Tearing
<1>8. Copied(l, lv.p, lv.ret, store[k])
  <2>1. lv.p = [lv.p EXCEPT !.cid = lv.p.cid]
    BY <1>4, <1>5 DEF Preview
  <2> QED
    BY <1>3, <1>4, <2>1 DEF Copied, Same, Ahead, Tearing, Building, Waking
<1>9. Fits(self, l, lv, store)
  BY <1>1, <1>3, <1>6, <1>7, <1>8 DEF Fits, Current
<1> QED
  BY <1>1, <1>9, JumpOnly, SeqStep

LEMMA EndFits ==
  ASSUME TypeOK, SeqInv, NEW self \in Procs,
         \/ HandleClosed(self) \/ PreviewEnvironments(self)
         \/ ListForTeardown(self) \/ TearNext(self) \/ TornDown(self)
  PROVE  SeqInv'
<1>0. /\ loc[self] \in Locals
      /\ pc[self] # "idle" => /\ Fits(self, pc[self], loc[self], store)
                              /\ Whole(store) /\ Listed(loc[self], store)
  BY Busy1, LocalType DEF Current
<1>1. CASE HandleClosed(self)
  BY <1>0, <1>1, OthersOn, JumpFits DEF HandleClosed, Goto
<1>2. CASE PreviewEnvironments(self)
  <2> DEFINE lv == [loc[self] EXCEPT
                     !.apps = {a \in Apps : <<loc[self].pr, a>> \in Live}]
  <2>1. /\ lv.todo = loc[self].todo /\ lv.ret = loc[self].ret
        /\ lv.ev = loc[self].ev
    BY <1>0 DEF Locals
  <2>2. /\ Jump(self, "list") /\ SetLoc(self, lv) /\ store' = store
        /\ pc[self] = "environments"
    BY <1>2 DEF PreviewEnvironments, Goto
  <2> HIDE DEF lv
  <2>3. Listed(lv, store)
    BY <1>0, <2>1, <2>2 DEF Listed
  <2> QED
    BY <2>1, <2>2, <2>3, ListsFit
<1>3. CASE ListForTeardown(self)
  <2> DEFINE lv == [loc[self] EXCEPT !.todo = Snapshot(OfCommand(self))]
  <2>1. /\ lv.todo = Snapshot(OfCommand(self)) /\ lv.ret = loc[self].ret
        /\ lv.ev = loc[self].ev
    BY <1>0 DEF Locals
  <2>2. /\ Jump(self, "tearNext") /\ SetLoc(self, lv) /\ store' = store
        /\ pc[self] = "list"
    BY <1>3 DEF ListForTeardown, Goto
  <2> HIDE DEF lv
  <2> QED
    BY <2>1, <2>2, SnapshotListed, ListsFit
<1>4. CASE TearNext(self)
  <2>1. PICK k \in Pending(self) :
          SetLoc(self, [TakeNext(self, k) EXCEPT !.ret = "tearNext"])
    BY <1>4 DEF TearNext
  <2>2. /\ Jump(self, "tearHost") /\ store' = store /\ pc[self] = "tearNext"
    BY <1>4 DEF TearNext, Goto
  <2> DEFINE lv == [TakeNext(self, k) EXCEPT !.ret = "tearNext"]
  <2>3. lv = [TakeNext(self, k) EXCEPT !.ret = "tearNext"] /\ SetLoc(self, lv)
    BY <2>1
  <2> HIDE DEF lv
  <2> QED
    BY <2>2, <2>3, TakeNextFits
<1>5. CASE TornDown(self)
  BY <1>0, <1>5, ExitFits DEF TornDown
<1> QED
  BY <1>1, <1>2, <1>3, <1>4, <1>5

LEMMA OpenedFits ==
  ASSUME TypeOK, SeqInv, NEW self \in Procs, HandleOpened(self) \/ Redeploy(self)
  PROVE  SeqInv'
<1>1. /\ pc[self] \in {"opened", "redeploy"} /\ store' = store
      /\ \/ Exit(self)
         \/ \E lv \in Locals : /\ lv.ev = loc[self].ev
                               /\ lv.todo = loc[self].todo
                               /\ Return(self, lv, "deploy")
  <2>1. loc[self] \in Locals /\ head[loc[self].pr] \in Commits \cup {0}
    BY LocalType DEF Locals
  <2>2. CASE HandleOpened(self)
    <3>1. PICK S \in SUBSET Apps :
            Return(self, [loc[self] EXCEPT !.apps = S], "deploy")
      BY <2>2 DEF HandleOpened
    <3>2. LET lv == [loc[self] EXCEPT !.apps = S] IN
            lv \in Locals /\ lv.ev = loc[self].ev /\ lv.todo = loc[self].todo
      BY <2>1 DEF Locals
    <3> QED
      BY <2>2, <3>1, <3>2 DEF HandleOpened
  <2>3. CASE Redeploy(self)
    <3>1. LET lv == [loc[self] EXCEPT !.sha = head[loc[self].pr]] IN
            lv \in Locals /\ lv.ev = loc[self].ev /\ lv.todo = loc[self].todo
      BY <2>1 DEF Locals
    <3> QED
      BY <2>3, <3>1 DEF Redeploy
  <2> QED
    BY <2>2, <2>3
<1>2. Whole(store) /\ OnItsWay(pc[self], loc[self])
      /\ (self = Loop <=> loc[self].ev = "tick")
  BY <1>1, Busy1
<1>3. CASE Exit(self)
  BY <1>1, <1>2, <1>3, ExitFits
<1>4. ASSUME NEW lv \in Locals, lv.ev = loc[self].ev, lv.todo = loc[self].todo,
             Return(self, lv, "deploy")
      PROVE  SeqInv'
  <2>1. lv.ev \in {"opened", "redeploy"} /\ lv.todo = Nothing
    BY <1>1, <1>2, <1>4 DEF OnItsWay, TearSteps, RequestSteps, TickSteps
  <2>2. OnItsWay("deploy", lv)
    BY <2>1 DEF OnItsWay, DeploySteps, Tearing
  <2>3. Current("deploy", lv, store)
    BY <2>1 DEF Current, Listed, Nothing, Copied, InHandSteps, Same, Ahead,
                Tearing, Building, Waking
  <2>4. Fits(self, "deploy", lv, store)
    BY <1>2, <1>4, <2>2, <2>3 DEF Fits
  <2> QED
    BY <1>1, <1>2, <1>4, <2>4, ReturnFits
<1> QED
  BY <1>1, <1>3, <1>4

LEMMA RequestFits ==
  ASSUME TypeOK, SeqInv, NEW self \in Procs, Resolve(self) \/ Touch(self)
  PROVE  SeqInv'
<1>0. /\ loc[self] \in Locals /\ Key(self) \in Keys
      /\ KeyOf(loc[self]) = Key(self)
  BY LocalType, KeyType DEF KeyOf, Key
<1>1. CASE Resolve(self)
  <2> DEFINE p == store[Key(self)]
             lv == [loc[self] EXCEPT !.p = p]
             l == IF p.status = "running" THEN "touch" ELSE "wake"
  <2>1. /\ pc[self] = "resolve" /\ store' = store
        /\ \/ Exit(self)
           \/ /\ p.status \in {"running", "sleeping"}
              /\ Jump(self, l) /\ SetLoc(self, lv)
    BY <1>1 DEF Resolve
  <2>2. /\ OnItsWay("resolve", loc[self]) /\ Whole(store)
        /\ (self = Loop <=> loc[self].ev = "tick")
    BY <2>1, Busy1
  <2>3. ASSUME p.status \in {"running", "sleeping"}, Jump(self, l), SetLoc(self, lv)
        PROVE  SeqInv'
    <3>1. /\ lv.p = p /\ lv.ev = loc[self].ev /\ lv.todo = loc[self].todo
          /\ lv.ret = loc[self].ret /\ lv.pr = loc[self].pr
          /\ lv.app = loc[self].app /\ p \in Preview
      BY <1>0 DEF Locals
    <3> HIDE DEF lv
    <3>2. KeyOf(lv) = Key(self)
      BY <3>1 DEF KeyOf, Key
    <3>3. p = [p EXCEPT !.cid = p.cid] /\ p # Absent
      BY <2>3, <3>1 DEF Preview, Absent
    <3>4. l \in {"touch", "wake"} /\ Copied(l, p, lv.ret, p)
      BY <2>3, <3>3 DEF Copied, Same, Ahead, Tearing, Building, Waking
    <3>5. lv.todo = Nothing /\ OnItsWay(l, lv)
      BY <2>2, <3>1, <3>4 DEF OnItsWay, DeploySteps, TearSteps, RequestSteps,
                               TickSteps, Tearing
    <3> HIDE DEF p, l
    <3>6. Fits(self, l, lv, store)
      BY <1>0, <2>2, <3>1, <3>2, <3>4, <3>5
         DEF Fits, Current, Listed, Nothing, p
    <3> QED
      BY <2>1, <2>2, <2>3, <3>6, JumpOnly, SeqStep
  <2> QED
    BY <2>1, <2>2, <2>3, ExitFits
<1>2. CASE Touch(self)
  <2>1. /\ pc[self] = "touch" /\ pc[self] \in InHandSteps /\ Exit(self)
        /\ Put(Key(self), [loc[self].p EXCEPT !.age = 0])
    BY <1>2 DEF Touch, InHandSteps, Same
  <2>2. Whole(store) /\ loc[self].p = store[Key(self)] /\ loc[self].p # Absent
    BY <2>1, Busy1, InHandAlone DEF Copied, Same
  <2>3. loc[self].p.status # "destroyed" /\ loc[self].p \in Preview
    BY <1>0, <2>2 DEF Whole
  <2>4. [loc[self].p EXCEPT !.age = 0].status # "destroyed"
    BY <2>3 DEF Preview
  <2> QED
    BY <2>1, <2>2, <2>4, PutWhole, ExitFits
<1> QED
  BY <1>1, <1>2

\* A wake or a heal that fails: a request ends, Tick marks the record failed.
LEMMA WakeFailedFits ==
  ASSUME TypeOK, SeqInv, NEW self \in Procs, store' = store,
         pc[self] \in {"wake", "recreate", "rerun", "probe"},
         \/ WakeFailed(self) /\ self # Loop
         \/ RecreateFailed(self) /\ pc[self] \in {"recreate", "rerun"}
  PROVE  SeqInv'
<1>1. /\ Fits(self, pc[self], loc[self], store) /\ Whole(store)
      /\ OnItsWay(pc[self], loc[self]) /\ loc[self] \in Locals
      /\ (self = Loop <=> loc[self].ev = "tick")
  BY Busy1, LocalType
<1>2. ASSUME self # Loop, WakeFailed(self) PROVE SeqInv'
  <2>1. loc[self].ret = "idle"
    BY <1>1, <1>2 DEF OnItsWay, DeploySteps, TearSteps, RequestSteps, TickSteps,
                      Tearing
  <2>2. Exit(self)
    BY <1>2, <2>1 DEF WakeFailed, Return
  <2> QED
    BY <1>1, <2>2, ExitFits
<1>3. ASSUME self = Loop, RecreateFailed(self), pc[self] \in {"recreate", "rerun"}
      PROVE  SeqInv'
  <2>1. Jump(self, "healFail") /\ loc' = loc
    BY <1>3 DEF RecreateFailed
  <2>2. Fits(self, "healFail", loc[self], store)
    BY <1>1, <1>3, OthersOn
  <2> QED
    BY <2>1, <2>2, JumpFits
<1> QED
  BY <1>2, <1>3 DEF RecreateFailed

\* Tick neither wakes nor probes.
LEMMA TickPlace ==
  ASSUME TypeOK, SeqInv, NEW self \in Procs, pc[self] \in {"wake", "probe", "wakePut"}
  PROVE  /\ self # Loop /\ loc[self].ret = "idle" /\ loc[self].ev = "request"
BY Busy1 DEF OnItsWay, DeploySteps, TearSteps, RequestSteps, TickSteps, Tearing

LEMMA WakeFits ==
  ASSUME TypeOK, SeqInv, NEW self \in Procs,
         Wake(self) \/ Recreate(self) \/ RunAgain(self) \/ Probe(self)
  PROVE  SeqInv'
<1>0. /\ pc[self] \in {"wake", "recreate", "rerun", "probe"} /\ store' = store
      /\ Fits(self, pc[self], loc[self], store)
      /\ pc[self] \in {"wake", "probe"} => self # Loop
  <2>1. /\ pc[self] \in {"wake", "recreate", "rerun", "probe"} /\ store' = store
    BY DEF Wake, Recreate, RunAgain, Probe
  <2> QED
    BY <2>1, Busy1, TickPlace
<1>1. CASE Wake(self)
  <2>1. /\ pc[self] = "wake"
        /\ \/ loc' = loc /\ (Jump(self, "probe") \/ Jump(self, "recreate"))
           \/ WakeFailed(self)
    BY <1>1 DEF Wake
  <2> QED
    BY <1>0, <2>1, OthersOn, JumpFits, WakeFailedFits
<1>2. CASE Recreate(self)
  <2>1. /\ pc[self] = "recreate"
        /\ \/ loc' = loc /\ Jump(self, "rerun")
           \/ RecreateFailed(self)
    BY <1>2 DEF Recreate
  <2> QED
    BY <1>0, <2>1, OthersOn, JumpFits, WakeFailedFits
<1>3. CASE RunAgain(self)
  <2>1. /\ pc[self] = "rerun"
        /\ \/ /\ DockerRunOk(self, Key(self), loc[self].p.img)
              /\ Jump(self, IF self = Loop THEN "healPut" ELSE "probe")
           \/ RecreateFailed(self)
    BY <1>3 DEF RunAgain
  <2> QED
    BY <1>0, <2>1, KeyType, RunFits, WakeFailedFits
<1>4. CASE Probe(self)
  <2>1. /\ pc[self] = "probe"
        /\ \/ loc' = loc /\ Jump(self, "wakePut")
           \/ WakeFailed(self)
    BY <1>4 DEF Probe
  <2> QED
    BY <1>0, <2>1, OthersOn, JumpFits, WakeFailedFits
<1> QED
  BY <1>1, <1>2, <1>3, <1>4

\* The one step after which another goroutine is busy: the publisher's.
LEMMA WakePutFits ==
  ASSUME TypeOK, SeqInv, NEW self \in Procs, WakePut(self)
  PROVE  SeqInv'
<1> DEFINE k == Key(self)
           p == [loc[self].p EXCEPT !.status = "running", !.age = 0]
           publisher == [Blank EXCEPT !.ev = "publish", !.p = p,
                                      !.pr = k[1], !.app = k[2]]
           g == NewGoroutine
<1>1. /\ pc[self] = "wakePut" /\ Put(k, p) /\ k \in Keys
      /\ self # Loop /\ loc[self].ret = "idle"
  BY TickPlace, KeyType DEF WakePut
<1>2. p \in Preview /\ p.status = "running"
  BY LocalType, LivePreview DEF Preview
<1>3. Whole(store')
  BY <1>1, <1>2, Busy1, PutWhole
<1>4. store'[k] = p
  BY <1>1 DEF Put
<1>5. Fits(g, "publish", publisher, store') \/ g = Loop
  <2>1. /\ publisher.p = p /\ publisher.todo = Nothing /\ publisher.ret = "idle"
        /\ publisher.ev = "publish" /\ publisher.pr = k[1]
        /\ publisher.app = k[2] /\ <<k[1], k[2]>> = k
    BY <1>1 DEF Blank, Keys
  <2> HIDE DEF publisher
  <2>2. KeyOf(publisher) = k
    BY <2>1 DEF KeyOf
  <2>3. p # Absent
    BY <1>2 DEF Absent
  <2> HIDE DEF p, k
  <2>4. Copied("publish", p, "idle", p)
    BY <1>2, <2>3 DEF Copied, Same, Ahead, Tearing, Building, Waking
  <2>5. OnItsWay("publish", publisher)
    BY <2>1 DEF OnItsWay
  <2> QED
    BY <1>1, <1>4, <2>1, <2>2, <2>4, <2>5
       DEF Fits, Current, Listed, Nothing
<1>6. CASE /\ Free # {}
           /\ pc' = [pc EXCEPT ![self] = "idle", ![g] = "publish"]
           /\ loc' = [loc EXCEPT ![self] = Blank, ![g] = publisher]
  <2>1. g \in Procs /\ g # self /\ g # Loop
    BY <1>1, <1>6, NewGoroutineType, ThreadsAssumption DEF Procs
  <2> HIDE DEF publisher, g
  <2>2. /\ pc'[g] = "publish" /\ loc'[g] = publisher
        /\ \A s \in Procs \ {g} : pc'[s] = "idle"
    BY <1>1, <1>6, <2>1 DEF SeqInv, Alone
  <2>3. Alone'
    BY <2>2 DEF Alone
  <2>4. \A s \in Procs : Fits(s, pc'[s], loc'[s], store')
    BY <1>5, <2>1, <2>2 DEF Fits
  <2> QED
    BY <1>3, <2>3, <2>4 DEF SeqInv
<1>7. CASE Jump(self, "idle") /\ SetLoc(self, Blank)
  BY <1>1, <1>3, <1>7, ExitFits DEF Exit
<1> QED
  BY <1>1, <1>6, <1>7 DEF WakePut

LEMMA HandlerFits ==
  ASSUME TypeOK, SeqInv, NEW self \in Procs, HandlerStep(self)
  PROVE  SeqInv'
<1>1. pc[self] \notin {"wakeList", "wakeNext"}
  <2>1. SUFFICES ASSUME pc[self] # "idle" PROVE pc[self] \notin {"wakeList", "wakeNext"}
    OBVIOUS
  <2> QED
    BY <2>1, Busy1 DEF OnItsWay, DeploySteps, TearSteps, RequestSteps, TickSteps
<1>2. ~WakeList(self) /\ ~WakeNext(self) /\ ~WokenUp(self)
  BY <1>1 DEF WakeList, WakeNext, WokenUp, Goto
<1> QED
  BY <1>2, EndFits, OpenedFits, WakeFits, WakePutFits, RequestFits
     DEF HandlerStep

-----------------------------------------------------------------------------
(* The steps of Tick.                                                      *)

LEMMA ListManagedFits ==
  ASSUME TypeOK, SeqInv, ListManaged
  PROVE  SeqInv'
<1> DEFINE left(k) == IF Verdict(loc[Loop].todo[k], managed'[k]) = "scan"
                      THEN Absent ELSE loc[Loop].todo[k]
           lv == [loc[Loop] EXCEPT !.todo = [k \in Keys |-> left(k)]]
<1>1. /\ Jump(Loop, "scan") /\ SetLoc(Loop, lv) /\ store' = store
      /\ loc[Loop] \in Locals /\ pc[Loop] = "ps" /\ Loop \in Procs
  BY LoopInProcs, LocalType DEF ListManaged, LoopDo, Goto
<1>2. /\ lv.ev = loc[Loop].ev /\ lv.todo = [k \in Keys |-> left(k)]
  BY <1>1 DEF Locals
<1>3. \A k \in Keys : left(k) = Absent \/ left(k) = loc[Loop].todo[k]
  OBVIOUS
<1> HIDE DEF lv, left
<1>4. /\ Whole(store) /\ Current("ps", loc[Loop], store) /\ loc[Loop].ev = "tick"
  BY <1>1, Busy1
<1>5. OnItsWay("scan", lv)
  BY <1>2, <1>4 DEF OnItsWay, TickSteps
<1>6. Current("scan", lv, store)
  BY <1>2, <1>3, <1>4 DEF Current, Listed, Copied, InHandSteps, Same, Ahead,
                          Tearing, Building, Waking
<1>7. Fits(Loop, "scan", lv, store)
  BY <1>2, <1>4, <1>5, <1>6 DEF Fits
<1> QED
  BY <1>1, <1>4, <1>7, JumpOnly, SeqStep

\* Tick puts to sleep only what runs, and heals only what runs or sleeps.
LEMMA VerdictFits ==
  ASSUME NEW p, NEW id
  PROVE  /\ Verdict(p, id) \in {"tearHost", "scan", "recreate", "sleep"}
         /\ Verdict(p, id) = "sleep" => p.status = "running"
         /\ Verdict(p, id) = "recreate" => p.status \in {"running", "sleeping"}
                                             /\ id = 0
<1>1. CASE Expired(p)
  BY <1>1 DEF Verdict
<1>2. CASE ~Expired(p) /\ Missing(p, id)
  BY <1>2 DEF Verdict, Missing
<1>3. CASE ~Expired(p) /\ ~Missing(p, id) /\ IdleSince(p)
  BY <1>3 DEF Verdict, IdleSince
<1>4. CASE ~Expired(p) /\ ~Missing(p, id) /\ ~IdleSince(p)
  BY <1>4 DEF Verdict
<1> QED
  BY <1>1, <1>2, <1>3, <1>4

LEMMA ScanFits ==
  ASSUME TypeOK, SeqInv, Scan
  PROVE  SeqInv'
<1>1. PICK k \in Pending(Loop) :
        /\ Jump(Loop, Verdict(loc[Loop].todo[k], managed[k]))
        /\ SetLoc(Loop, [TakeNext(Loop, k) EXCEPT !.ret = "scan"])
  BY DEF Scan
<1> DEFINE l == Verdict(loc[Loop].todo[k], managed[k])
           lv == [TakeNext(Loop, k) EXCEPT !.ret = "scan"]
<1>2. /\ l \in {"tearHost", "scan", "recreate", "sleep"}
      /\ l = "sleep" => loc[Loop].todo[k].status = "running"
      /\ l = "recreate" => loc[Loop].todo[k].status \in {"running", "sleeping"}
  BY VerdictFits
<1>3. /\ Jump(Loop, l) /\ SetLoc(Loop, lv) /\ store' = store
      /\ pc[Loop] = "scan" /\ Loop \in Procs
      /\ lv = [TakeNext(Loop, k) EXCEPT !.ret = "scan"]
  BY <1>1, LoopInProcs DEF Scan
<1> HIDE DEF l, lv
<1> QED
  BY <1>2, <1>3, TakeNextFits

LEMMA LoopFits ==
  ASSUME TypeOK, SeqInv, LoopStep
  PROVE  SeqInv'
<1>0. /\ Loop \in Procs /\ loc[Loop] \in Locals
      /\ pc[Loop] # "idle" => /\ Fits(Loop, pc[Loop], loc[Loop], store)
                              /\ Whole(store)
                              /\ OnItsWay(pc[Loop], loc[Loop])
  BY LoopInProcs, LocalType, Busy1
<1>1. CASE ListManaged \/ Scan
  BY <1>1, ListManagedFits, ScanFits
<1>2. CASE HealPut \/ HealFail \/ SleepPut
  BY <1>2, HealFits
<1>3. CASE Sleep
  <2>1. /\ pc[Loop] = "sleep" /\ store' = store
        /\ \/ Jump(Loop, "sleepPut") /\ loc' = loc
           \/ Return(Loop, loc[Loop], "scan")
    BY <1>3 DEF Sleep
  <2>2. Fits(Loop, "scan", loc[Loop], store)
    BY <1>0, <2>1 DEF Fits, OnItsWay, Current, Copied, DeploySteps, TearSteps,
              RequestSteps, TickSteps, Tearing, InHandSteps, Same, Ahead,
              Building, Waking
  <2> QED
    BY <1>0, <2>1, <2>2, OthersOn, JumpFits, ReturnFits
<1>4. CASE Reap
  BY <1>4 DEF Reap, SeqInv, Alone
<1>5. CASE ReapDirs
  BY <1>0, <1>5, ExitFits DEF ReapDirs
<1>6. CASE Publish(Loop) \/ TearHost(Loop) \/ TearDelete(Loop)
  BY <1>0, <1>6, DeployFits DEF DeployStep
<1>7. CASE Recreate(Loop) \/ RunAgain(Loop)
  BY <1>0, <1>7, WakeFits
<1> QED
  BY <1>1, <1>2, <1>3, <1>4, <1>5, <1>6, <1>7 DEF LoopStep

-----------------------------------------------------------------------------
(* What starts, and what surrounds the daemon.                             *)

LEMMA Rested ==
  ASSUME TypeOK, Sequential, Cardinality(Busy) < MaxBusy
  PROVE  \A s \in Procs : pc[s] = "idle"
<1>1. IsFiniteSet(Busy)
  <2>1. IsFiniteSet(Procs)
    BY ThreadsAssumption, FS_AddElement DEF Procs
  <2> QED
    BY <2>1, FS_Subset DEF Busy
<1>2. Cardinality(Busy) = 0
  BY <1>1, FS_CardinalityType DEF Sequential
<1>3. Busy = {}
  BY <1>1, <1>2, FS_EmptySet
<1> QED
  BY <1>3 DEF Busy

\* A goroutine begins with event ev of pull request r.
Begins(l, ev, r) ==
  \E lv : /\ Start(lv, l) /\ lv.ev = ev /\ lv.pr = r
          /\ lv.p = Absent /\ lv.todo = Nothing /\ lv.ret = "idle"

LEMMA Began ==
  ASSUME TypeOK, Sequential, NEW l, NEW ev, NEW r, Begins(l, ev, r)
  PROVE  \E g \in Goroutines :
           /\ \A s \in Procs : pc[s] = "idle"
           /\ Only(g) /\ pc'[g] = l
           /\ loc'[g].ev = ev /\ loc'[g].pr = r /\ loc'[g].p = Absent
           /\ loc'[g].todo = Nothing /\ loc'[g].ret = "idle"
<1>1. PICK lv : /\ Start(lv, l) /\ lv.ev = ev /\ lv.pr = r
                /\ lv.p = Absent /\ lv.todo = Nothing /\ lv.ret = "idle"
  BY DEF Begins
<1> DEFINE g == NewGoroutine
<1>2. /\ g \in Goroutines /\ g \in Procs /\ Jump(g, l) /\ SetLoc(g, lv)
      /\ \A s \in Procs : pc[s] = "idle"
  BY <1>1, NewGoroutineType, Rested DEF Start, Procs
<1> HIDE DEF g
<1>3. Only(g) /\ pc'[g] = l /\ loc'[g] = lv
  BY <1>2, JumpOnly
<1> QED
  BY <1>1, <1>2, <1>3

LEMMA BlankFields ==
  /\ Blank.p = Absent /\ Blank.todo = Nothing /\ Blank.ret = "idle"
  /\ Blank.ev = "none"
BY DEF Blank

LEMMA WebhookMoves ==
  ASSUME TypeOK, NEW r \in PRs
  PROVE  /\ Opened(r) \/ Updated(r) =>
              \/ Begins("opened", "opened", r)
              \/ "lost" \in Faults /\ UNCHANGED <<pc, loc>>
         /\ Closed(r) =>
              \/ Begins("closing", "closed", r)
              \/ "lost" \in Faults /\ UNCHANGED <<pc, loc>>
<1>1. ASSUME NEW c, NEW ev, NEW l,
             Start([Blank EXCEPT !.ev = ev, !.pr = r, !.sha = c], l)
      PROVE  Begins(l, ev, r)
  <2> DEFINE lv == [Blank EXCEPT !.ev = ev, !.pr = r, !.sha = c]
  <2>1. /\ lv.ev = ev /\ lv.pr = r /\ lv.p = Absent /\ lv.todo = Nothing
        /\ lv.ret = "idle"
    BY DEF Blank
  <2> HIDE DEF lv
  <2> QED
    BY <1>1, <2>1 DEF Begins, lv
<1>2. ASSUME Opened(r)
      PROVE  \/ Begins("opened", "opened", r)
             \/ "lost" \in Faults /\ UNCHANGED <<pc, loc>>
  BY <1>1, <1>2 DEF Opened, Deliver
<1>3. ASSUME Updated(r)
      PROVE  \/ Begins("opened", "opened", r)
             \/ "lost" \in Faults /\ UNCHANGED <<pc, loc>>
  BY <1>1, <1>3 DEF Updated, Deliver
<1>4. ASSUME Closed(r)
      PROVE  \/ Begins("closing", "closed", r)
             \/ "lost" \in Faults /\ UNCHANGED <<pc, loc>>
  <2> DEFINE lv == [Blank EXCEPT !.ev = "closed", !.pr = r]
  <2>1. /\ lv.ev = "closed" /\ lv.pr = r /\ lv.p = Absent /\ lv.todo = Nothing
        /\ lv.ret = "idle"
    BY DEF Blank
  <2>2. Deliver(lv, "closing")
    BY <1>4 DEF Closed
  <2> HIDE DEF lv
  <2> QED
    BY <2>1, <2>2 DEF Deliver, Begins
<1> QED
  BY <1>2, <1>3, <1>4

LEMMA CommentMoves ==
  ASSUME TypeOK, "wake" \notin Commands, NEW r \in PRs, Commented(r)
  PROVE  Begins("list", "destroy", r) \/ Begins("redeploy", "redeploy", r)
<1>1. PICK cmd \in Commands, S \in {Apps} \cup {{a} : a \in Apps} :
        Start([Blank EXCEPT !.ev = cmd, !.pr = r, !.apps = S],
              CASE cmd = "destroy" -> "list" [] cmd = "wake" -> "wakeList"
                [] cmd = "redeploy" -> "redeploy")
  BY DEF Commented
<1> DEFINE lv == [Blank EXCEPT !.ev = cmd, !.pr = r, !.apps = S]
<1>2. /\ lv.ev = cmd /\ lv.pr = r /\ lv.p = Absent /\ lv.todo = Nothing
      /\ lv.ret = "idle"
  BY DEF Blank
<1>3. cmd \in {"destroy", "redeploy"} /\ "wake" # cmd
  BY BusyAssumption
<1>4. CASE cmd = "destroy"
  <2>1. Start(lv, "list")
    BY <1>1, <1>4
  <2> HIDE DEF lv
  <2> QED
    BY <1>2, <1>4, <2>1 DEF Begins
<1>5. CASE cmd = "redeploy"
  <2>1. Start(lv, "redeploy")
    BY <1>1, <1>5
  <2> HIDE DEF lv
  <2> QED
    BY <1>2, <1>5, <2>1 DEF Begins
<1> QED
  BY <1>3, <1>4, <1>5

LEMMA RequestMoves ==
  ASSUME TypeOK, NEW k \in Keys, Requested(k)
  PROVE  Begins("resolve", "request", k[1])
<1> DEFINE lv == [Blank EXCEPT !.ev = "request", !.pr = k[1], !.app = k[2]]
<1>1. /\ lv.ev = "request" /\ lv.pr = k[1] /\ lv.p = Absent
      /\ lv.todo = Nothing /\ lv.ret = "idle"
  BY DEF Blank
<1>2. Start(lv, "resolve")
  BY DEF Requested
<1> HIDE DEF lv
<1> QED
  BY <1>1, <1>2 DEF Begins

LEMMA BeginsFits ==
  ASSUME TypeOK, SeqInv, Sequential, store' = store, NEW l, NEW ev, NEW r,
         <<l, ev>> \in {<<"opened", "opened">>, <<"closing", "closed">>,
                        <<"list", "destroy">>, <<"redeploy", "redeploy">>,
                        <<"resolve", "request">>},
         Begins(l, ev, r)
  PROVE  SeqInv'
<1>1. PICK g \in Goroutines :
        /\ \A s \in Procs : pc[s] = "idle"
        /\ Only(g) /\ pc'[g] = l
        /\ loc'[g].ev = ev /\ loc'[g].pr = r /\ loc'[g].p = Absent
        /\ loc'[g].todo = Nothing /\ loc'[g].ret = "idle"
  BY Began
<1> DEFINE lv == loc'[g]
<1>2. g \in Procs /\ g # Loop
  BY ThreadsAssumption DEF Procs
<1> HIDE DEF lv
<1>3. OnItsWay(l, lv) /\ lv.ev # "tick"
  BY <1>1 DEF lv, OnItsWay, DeploySteps, TearSteps, RequestSteps, Tearing
<1>4. Current(l, lv, store)
  BY <1>1 DEF lv, Current, Listed, Nothing, Copied, InHandSteps, Same, Ahead,
              Tearing, Building, Waking
<1>5. Fits(g, l, lv, store)
  BY <1>2, <1>3, <1>4 DEF Fits
<1>6. \A s \in Procs \ {g} : pc'[s] = "idle"
  BY <1>1 DEF Only
<1>7. Alone'
  BY <1>6 DEF Alone
<1>8. \A s \in Procs : Fits(s, pc'[s], loc'[s], store')
  BY <1>1, <1>5, <1>6 DEF Fits, lv
<1> QED
  BY <1>7, <1>8 DEF SeqInv

LEMMA RebootFits ==
  ASSUME Reboot, Whole(store')
  PROVE  SeqInv'
BY DEF Reboot, SeqInv, Alone, Fits

LEMMA EnvironmentFits ==
  ASSUME TypeOK, SeqInv, Sequential, Environment
  PROVE  SeqInv'
<1>0. /\ "wake" \notin Commands /\ Whole(store)
      /\ store' = store /\ UNCHANGED <<pc, loc>> => SeqInv'
  BY DEF SeqInv, Alone, Sequential
<1>1. ASSUME NEW r \in PRs, Opened(r) \/ Updated(r) \/ Closed(r) PROVE SeqInv'
  <2>1. store' = store
    BY <1>1 DEF Opened, Updated, Closed
  <2> QED
    BY <1>0, <1>1, <2>1, WebhookMoves, BeginsFits
<1>2. ASSUME NEW r \in PRs, Commented(r) PROVE SeqInv'
  <2>1. store' = store
    BY <1>2 DEF Commented
  <2> QED
    BY <1>0, <1>2, <2>1, CommentMoves, BeginsFits
<1>3. ASSUME NEW r \in PRs, ForgetPR(r) PROVE SeqInv'
  BY <1>0, <1>3 DEF ForgetPR
<1>4. ASSUME NEW k \in Keys, Requested(k) PROVE SeqInv'
  <2>1. store' = store
    BY <1>4 DEF Requested
  <2> QED
    BY <1>4, <2>1, RequestMoves, BeginsFits
<1>5. ASSUME NEW k \in Keys, Prune(k) \/ AppExits(k) PROVE SeqInv'
  BY <1>0, <1>5 DEF Prune, AppExits
<1>6. ASSUME NEW k \in Keys, CliDestroy(k) PROVE SeqInv'
  <2>1. Reboot /\ (store' = store \/ Put(k, Absent))
    BY <1>6 DEF CliDestroy
  <2>2. Whole(store')
    BY <1>0, <2>1, PutWhole
  <2> QED
    BY <2>1, <2>2, RebootFits
<1>7. CASE Restart
  BY <1>0, <1>7, RebootFits DEF Restart
<1>8. CASE Outage \/ Recovery
  BY <1>0, <1>8 DEF Outage, Recovery
<1> QED
  BY <1>1, <1>2, <1>3, <1>4, <1>5, <1>6, <1>7, <1>8, Zenon DEF Environment

LEMMA OlderKeeps ==
  ASSUME NEW p \in Preview
  PROVE  /\ Older(p).status = p.status /\ Older(p).cid = p.cid
         /\ Older(p).img = p.img /\ Older(p).dep = p.dep
         /\ Older(p) \in Preview /\ (p = Absent <=> Older(p) = Absent)
<1>1. Older(p) \in Preview
  BY OlderType
<1>2. CASE p.status # "destroyed" /\ p.age < TTLAge
  <2>1. Older(p) = [p EXCEPT !.age = @ + 1]
    BY <1>2 DEF Older
  <2>2. /\ Older(p).status = p.status /\ Older(p).cid = p.cid
        /\ Older(p).img = p.img /\ Older(p).dep = p.dep
    BY <2>1 DEF Preview
  <2> QED
    BY <1>1, <1>2, <2>2 DEF Absent
<1>3. CASE ~(p.status # "destroyed" /\ p.age < TTLAge)
  BY <1>1, <1>3 DEF Older
<1> QED
  BY <1>2, <1>3

\* Tick's first step: the loop's goroutine begins, with all that the store has.
LEMMA TickBegins ==
  ASSUME TypeOK, NEW elapsed \in BOOLEAN, TickList(elapsed)
  PROVE  /\ pc[Loop] = "idle" /\ pc'[Loop] = "ps"
         /\ \A s \in Procs \ {Loop} : pc'[s] = pc[s]
         /\ loc'[Loop].ev = "tick" /\ loc'[Loop].p = Absent
         /\ loc'[Loop].todo = store'
         /\ \A k \in Keys : store'[k] = store[k] \/ store'[k] = Older(store[k])
         /\ DOMAIN store' = Keys
<1> DEFINE now(p) == IF elapsed THEN Older(p) ELSE p
           first == [Blank EXCEPT !.ev = "tick",
                                  !.todo = [k \in Keys |-> now(store[k])]]
<1>1. /\ store' = [k \in Keys |-> now(store[k])]
      /\ loc'[Loop] = first /\ pc[Loop] = "idle" /\ Jump(Loop, "ps")
  BY LoopInProcs DEF TickList, LoopDo, Goto
<1>2. first.ev = "tick" /\ first.p = Absent /\ first.todo = store'
  BY <1>1 DEF Blank
<1>3. \A k \in Keys : store'[k] = store[k] \/ store'[k] = Older(store[k])
  BY <1>1
<1> HIDE DEF first
<1> QED
  BY <1>1, <1>2, <1>3, LoopInProcs DEF Jump

LEMMA TickFits ==
  ASSUME TypeOK, SeqInv, Sequential, NEW elapsed \in BOOLEAN, Tick(elapsed)
  PROVE  SeqInv'
<1>1. \A s \in Procs : pc[s] = "idle"
  BY Rested DEF Tick
<1>2. /\ pc'[Loop] = "ps" /\ \A s \in Procs \ {Loop} : pc'[s] = "idle"
      /\ loc'[Loop].ev = "tick" /\ loc'[Loop].todo = store'
      /\ \A k \in Keys : store'[k] = store[k] \/ store'[k] = Older(store[k])
  BY <1>1, TickBegins DEF Tick
<1>3. Alone'
  BY <1>2 DEF Alone
<1>4. Whole(store')
  BY <1>2, OlderKeeps DEF SeqInv, Whole
<1>5. Fits(Loop, "ps", loc'[Loop], store')
  BY <1>2 DEF Fits, OnItsWay, TickSteps, Current, Listed, Copied, InHandSteps,
              Same, Ahead, Tearing, Building, Waking
<1>6. \A s \in Procs : Fits(s, pc'[s], loc'[s], store')
  BY <1>2, <1>5 DEF Fits
<1> QED
  BY <1>3, <1>4, <1>6 DEF SeqInv

LEMMA InitFits == Init => SeqInv
BY DEF Init, SeqInv, Alone, Whole, Fits, If, DeployedPreview

LEMMA NextFits ==
  ASSUME TypeOK, SeqInv, Sequential, [Next]_vars
  PROVE  SeqInv'
<1>1. CASE Environment
  BY <1>1, EnvironmentFits
<1>2. CASE \E elapsed \in BOOLEAN : Tick(elapsed)
  BY <1>2, TickFits
<1>3. CASE LoopStep
  BY <1>3, LoopFits
<1>4. CASE \E g \in Goroutines : GoroutineStep(g)
  BY <1>4, DeployFits, HandlerFits DEF GoroutineStep, Procs
<1>5. CASE UNCHANGED vars
  BY <1>5 DEF vars, SeqInv, Alone
<1> QED
  BY <1>1, <1>2, <1>3, <1>4, <1>5 DEF Next

LEMMA SeqCorrect ==
  ASSUME Sequential
  PROVE  Spec => []SeqInv
BY InitFits, NextFits, TypeCorrect, PTL DEF Spec

-----------------------------------------------------------------------------
(* The limit on previews.                                                  *)

\* checkCapacity, and the put that follows it.
CapInv ==
  /\ IsFiniteSet(Live) /\ CapacityRespected
  /\ \A s \in Procs : pc[s] = "put" /\ store[Key(s)] = Absent =>
       Cardinality(Live) < MaxPreviews

\* No record is added, and nobody comes to add one.
Shrinks ==
  /\ Live' \subseteq Live
  /\ \A s \in Procs : pc'[s] = "put" => /\ pc[s] = "deploy"
                                        /\ store'[Key(s)'] # Absent

LEMMA ShrinksCap ==
  ASSUME TypeOK, CapInv, Shrinks
  PROVE  CapInv'
<1>1. /\ IsFiniteSet(Live') /\ Cardinality(Live') <= Cardinality(Live)
      /\ Cardinality(Live) \in Nat /\ Cardinality(Live') \in Nat
  BY FS_Subset, FS_CardinalityType DEF CapInv, Shrinks
<1>2. CapacityRespected'
  BY <1>1, PartsAssumption DEF CapInv, CapacityRespected
<1>3. \A s \in Procs : pc'[s] = "put" /\ store'[Key(s)'] = Absent =>
        Cardinality(Live') < MaxPreviews
  BY DEF Shrinks
<1> QED
  BY <1>1, <1>2, <1>3 DEF CapInv

\* A record is only ever written over one that is there, but by "put".
LEMMA PutShrinks ==
  ASSUME NEW k, NEW p, store[k] # Absent, Put(k, p), TypeOK
  PROVE  Live' \subseteq Live
BY DEF Put, Live

LEMMA StayShrinks ==
  ASSUME store' = store
  PROVE  Live' \subseteq Live
BY DEF Live

\* The steps that write a record in hand have one.
LEMMA WritesOver ==
  ASSUME TypeOK, SeqInv, NEW self \in Procs,
         pc[self] \in Same \cup Ahead \cup Tearing
  PROVE  store[Key(self)] # Absent
BY InHandAlone DEF InHandSteps, Copied

LEMMA ShrinksStep ==
  ASSUME TypeOK, SeqInv, NEW self \in Procs, pc[self] # "idle", Only(self),
         pc'[self] # "put", Live' \subseteq Live
  PROVE  Shrinks
BY DEF SeqInv, Alone, Only, Shrinks

LEMMA JumpShrinks ==
  ASSUME TypeOK, SeqInv, NEW self \in Procs, pc[self] # "idle",
         NEW l, l # "put", Live' \subseteq Live, Jump(self, l),
         \/ loc' = loc
         \/ \E lv : SetLoc(self, lv)
  PROVE  Shrinks
BY StayOnly, JumpOnly, ShrinksStep

LEMMA ReturnShrinks ==
  ASSUME TypeOK, SeqInv, NEW self \in Procs, pc[self] # "idle",
         NEW l, l # "put", Live' \subseteq Live, NEW lv,
         \/ Return(self, lv, l) \/ PublishThen(self, lv, l) \/ Exit(self)
  PROVE  Shrinks
<1>1. Only(self) /\ pc'[self] \in {"idle", "publish", l}
  BY ReturnOnly, PublishThenOnly, JumpOnly DEF Exit
<1> QED
  BY <1>1, ShrinksStep

LEMMA DeployShrinks ==
  ASSUME TypeOK, SeqInv, NEW self \in Procs, DeployStep(self),
         ~CheckCapacity(self), ~PutBuilding(self)
  PROVE  Shrinks
<1>0. /\ store' = store => Live' \subseteq Live
      /\ loc[self].ret # "put" /\ Key(self) \in Keys
      /\ \A p : pc[self] \in Same \cup Ahead \cup Tearing /\ Put(Key(self), p)
                  => Live' \subseteq Live
  BY StayShrinks, LocalType, KeyType, WritesOver, PutShrinks
     DEF Returns, LoopHeads
<1>1. CASE NextApp(self)
  <2>1. PICK a \in loc[self].apps :
        LET existing == store[<<loc[self].pr, a>>] IN
         /\ SetLoc(self, [loc[self] EXCEPT
                            !.app = a, !.apps = @ \ {a},
                            !.p = [existing EXCEPT !.status = "building"]])
         /\ Jump(self, IF existing = Absent THEN "capacity" ELSE "put")
    BY <1>1 DEF NextApp
  <2> DEFINE k == <<loc[self].pr, a>>
             lv == [loc[self] EXCEPT !.app = a, !.apps = @ \ {a},
                              !.p = [store[k] EXCEPT !.status = "building"]]
  <2>2. lv.pr = loc[self].pr /\ lv.app = a
    BY LocalType DEF Locals
  <2>3. SetLoc(self, lv)
    BY <2>1
  <2> HIDE DEF lv
  <2>4. /\ Only(self) /\ loc'[self] = lv
        /\ pc'[self] = IF store[k] = Absent THEN "capacity" ELSE "put"
    BY <2>1, <2>3, JumpOnly
  <2>5. pc'[self] = "put" => store'[Key(self)'] # Absent
    BY <1>1, <2>2, <2>4 DEF NextApp, Key
  <2>6. pc[self] = "deploy" /\ store' = store
    BY <1>1 DEF NextApp
  <2> QED
    BY <1>0, <2>4, <2>5, <2>6 DEF SeqInv, Alone, Only, Shrinks
<1>2. CASE Publish(self)
  <2>1. /\ pc[self] = "publish" /\ pc[self] \in Same
        /\ store' = store \/ \E p : Put(Key(self), p)
        /\ \E lv : Return(self, lv, loc[self].ret)
    BY <1>2 DEF Publish, CreateDeployment, SetDeploymentStatus, PublishFails, Same
  <2>2. Live' \subseteq Live
    BY <1>0, <2>1
  <2> QED
    BY <1>0, <2>1, <2>2, ReturnShrinks
<1>3. CASE \/ Acquire(self) \/ Clean(self) \/ FetchSource(self)
           \/ BuildImage(self) \/ EnsureNetwork(self) \/ AwaitReady(self)
           \/ TearHost(self)
  <2>1. /\ pc[self] # "idle" /\ loc' = loc /\ store' = store
        /\ \E m : Jump(self, m) /\ m # "put"
    BY <1>3 DEF Acquire, Clean, FetchSource, BuildImage, EnsureNetwork,
                LeaveBuild, AwaitReady, TearHost
  <2> QED
    BY <1>0, <2>1, JumpShrinks
<1>4. CASE Built(self) \/ RecordFailure(self)
  <2>1. /\ pc[self] # "idle" /\ store' = store
        /\ \/ Jump(self, "network") /\ loc' = loc
           \/ \E l \in {"deploy", "failPut"} : Return(self, loc[self], l)
    BY <1>4 DEF Built, RecordFailure
  <2> QED
    BY <1>0, <2>1, JumpShrinks, ReturnShrinks
<1>5. CASE Run(self) \/ IsReady(self)
  <2>1. /\ pc[self] # "idle" /\ store' = store
        /\ \E m \in {"ready", "fail", "tearHost", "commit"} : Jump(self, m)
        /\ loc' = loc \/ \E lv : SetLoc(self, lv)
    BY <1>5 DEF Run, IsReady, DockerRunOk
  <2> QED
    BY <1>0, <2>1, JumpShrinks
<1>6. CASE Commit(self) \/ PutFailed(self)
  <2>1. /\ pc[self] \in Ahead /\ pc[self] # "idle"
        /\ \E p : Put(Key(self), p)
        /\ \E lv : PublishThen(self, lv, "deploy")
    BY <1>6 DEF Commit, PutFailed, Ahead
  <2>2. Live' \subseteq Live
    BY <1>0, <2>1
  <2> QED
    BY <2>1, <2>2, ReturnShrinks
<1>7. CASE TearDelete(self)
  <2>1. /\ pc[self] \in Tearing /\ pc[self] # "idle"
        /\ Put(Key(self), Absent)
        /\ Return(self, loc[self], loc[self].ret)
    BY <1>7 DEF TearDelete, Tearing
  <2>2. Live' \subseteq Live
    BY <1>0, <2>1
  <2> QED
    BY <1>0, <2>1, <2>2, ReturnShrinks
<1> QED
  BY <1>1, <1>2, <1>3, <1>4, <1>5, <1>6, <1>7 DEF DeployStep

LEMMA WakeShrinks ==
  ASSUME TypeOK, SeqInv, NEW self \in Procs,
         Wake(self) \/ Recreate(self) \/ RunAgain(self) \/ Probe(self)
  PROVE  Shrinks
<1>1. Live' \subseteq Live /\ pc[self] # "idle" /\ loc[self].ret # "put"
  BY StayShrinks, LocalType DEF Wake, Recreate, RunAgain, Probe, Returns, LoopHeads
<1>2. \/ /\ \E m \in {"probe", "recreate", "rerun", "healPut", "wakePut",
                      "healFail"} : Jump(self, m)
         /\ loc' = loc \/ \E lv : SetLoc(self, lv)
      \/ Return(self, loc[self], loc[self].ret)
  BY DEF Wake, Recreate, RunAgain, Probe, RecreateFailed, WakeFailed, DockerRunOk
<1> QED
  BY <1>1, <1>2, JumpShrinks, ReturnShrinks

LEMMA HandlerShrinks ==
  ASSUME TypeOK, SeqInv, NEW self \in Procs, HandlerStep(self)
  PROVE  Shrinks
<1>0. store' = store => Live' \subseteq Live
  BY StayShrinks
<1>1. CASE \/ HandleClosed(self) \/ PreviewEnvironments(self)
           \/ ListForTeardown(self) \/ TearNext(self) \/ WakeList(self)
           \/ WakeNext(self)
  <2>1. /\ pc[self] # "idle" /\ store' = store
        /\ loc' = loc \/ \E lv : SetLoc(self, lv)
        /\ \E m \in {"environments", "list", "tearNext", "tearHost",
                     "wakeNext", "wake"} : Jump(self, m)
    BY <1>1 DEF HandleClosed, PreviewEnvironments, ListForTeardown, TearNext,
                WakeList, WakeNext, Goto
  <2> QED
    BY <1>0, <2>1, JumpShrinks
<1>2. CASE \/ HandleOpened(self) \/ Redeploy(self) \/ TornDown(self)
  <2>1. /\ pc[self] # "idle" /\ store' = store
        /\ Exit(self) \/ \E lv : Return(self, lv, "deploy")
    BY <1>2 DEF HandleOpened, Redeploy, TornDown
  <2> QED
    BY <1>0, <2>1, ReturnShrinks
<1>3. CASE WokenUp(self)
  <2>1. /\ pc[self] # "idle" /\ store' = store
        /\ Exit(self) \/ (Jump(self, "redeploy") /\ loc' = loc)
    BY <1>3 DEF WokenUp
  <2> QED
    BY <1>0, <2>1, ReturnShrinks, JumpShrinks
<1>4. CASE Wake(self) \/ Recreate(self) \/ RunAgain(self) \/ Probe(self)
  BY <1>4, WakeShrinks
<1>5. CASE Resolve(self)
  <2>1. /\ pc[self] # "idle" /\ store' = store
        /\ \/ Exit(self)
           \/ /\ \E m \in {"touch", "wake"} : Jump(self, m)
              /\ \E lv : SetLoc(self, lv)
    BY <1>5 DEF Resolve
  <2> QED
    BY <1>0, <2>1, ReturnShrinks, JumpShrinks
<1>6. CASE Touch(self)
  <2>1. pc[self] \in Same /\ pc[self] # "idle" /\ Exit(self)
        /\ \E p : Put(Key(self), p)
    BY <1>6 DEF Touch, Same
  <2>2. Live' \subseteq Live
    BY <2>1, WritesOver, PutShrinks
  <2> QED
    BY <2>1, <2>2, ReturnShrinks
<1>7. CASE WakePut(self)
  <2>1. /\ pc[self] \in Ahead /\ \E p : Put(Key(self), p)
        /\ pc[self] = "wakePut" /\ loc[self].ret = "idle"
    BY <1>7, TickPlace DEF WakePut, Ahead
  <2>2. Live' \subseteq Live
    BY <2>1, WritesOver, PutShrinks
  <2>3. \A s \in Procs : pc'[s] # "put"
    BY <1>7, <2>1 DEF WakePut, SeqInv, Alone, Jump
  <2> QED
    BY <2>2, <2>3 DEF Shrinks
<1> QED
  BY <1>1, <1>2, <1>3, <1>4, <1>5, <1>6, <1>7 DEF HandlerStep

LEMMA LoopShrinks ==
  ASSUME TypeOK, SeqInv, LoopStep
  PROVE  Shrinks
<1>0. /\ store' = store => Live' \subseteq Live
      /\ Loop \in Procs
  BY StayShrinks, LoopInProcs
<1>1. CASE ListManaged \/ Scan
  <2>1. /\ pc[Loop] # "idle" /\ store' = store
        /\ \E lv : SetLoc(Loop, lv)
        /\ \E m : Jump(Loop, m) /\ m # "put"
    BY <1>1, VerdictFits DEF ListManaged, Scan, LoopDo, Goto
  <2> QED
    BY <1>0, <2>1, JumpShrinks
<1>2. CASE HealPut \/ HealFail \/ SleepPut
  <2>1. /\ pc[Loop] \in Same \cup Ahead /\ pc[Loop] # "idle"
        /\ \E p : Put(Key(Loop), p)
        /\ \E lv : PublishThen(Loop, lv, "scan")
    BY <1>2 DEF HealPut, HealFail, SleepPut, HealWrite, Same, Ahead
  <2>2. Live' \subseteq Live
    BY <1>0, <2>1, WritesOver, PutShrinks
  <2> QED
    BY <1>0, <2>1, <2>2, ReturnShrinks
<1>3. CASE Sleep
  <2>1. /\ pc[Loop] # "idle" /\ store' = store
        /\ \/ Jump(Loop, "sleepPut") /\ loc' = loc
           \/ Return(Loop, loc[Loop], "scan")
    BY <1>3 DEF Sleep
  <2> QED
    BY <1>0, <2>1, JumpShrinks, ReturnShrinks
<1>4. CASE Reap
  <2>1. /\ \A s \in Procs : pc[s] # "put"
        /\ UNCHANGED <<store, pc>>
    BY <1>0, <1>4 DEF Reap, SeqInv, Alone
  <2> QED
    BY <1>0, <2>1 DEF Shrinks
<1>5. CASE ReapDirs
  BY <1>0, <1>5, ReturnShrinks DEF ReapDirs
<1>6. CASE Publish(Loop) \/ TearHost(Loop) \/ TearDelete(Loop)
  <2>1. ~CheckCapacity(Loop) /\ ~PutBuilding(Loop)
    BY <1>6 DEF Publish, TearHost, TearDelete, CheckCapacity, PutBuilding
  <2> QED
    BY <1>0, <1>6, <2>1, DeployShrinks DEF DeployStep
<1>7. CASE Recreate(Loop) \/ RunAgain(Loop)
  BY <1>0, <1>7, WakeShrinks
<1> QED
  BY <1>1, <1>2, <1>3, <1>4, <1>5, <1>6, <1>7 DEF LoopStep

\* Nobody is about to add a record, and none is added.
LEMMA NobodyPuts ==
  ASSUME Live' \subseteq Live, \A s \in Procs : pc'[s] # "put"
  PROVE  Shrinks
BY DEF Shrinks

LEMMA EnvironmentCap ==
  ASSUME TypeOK, SeqInv, CapInv, Sequential, Environment
  PROVE  CapInv'
<1>0. /\ store' = store => Live' \subseteq Live
      /\ "wake" \notin Commands
  BY StayShrinks DEF Sequential
<1>00. ASSUME UNCHANGED <<store, pc, loc>> PROVE CapInv'
  BY <1>00 DEF CapInv, CapacityRespected, Live, Key
<1>01. ASSUME NEW l, NEW ev, NEW r, l # "put", Begins(l, ev, r), store' = store
       PROVE  CapInv'
  <2>1. \A s \in Procs : pc'[s] # "put"
    BY <1>01, Began DEF Only
  <2> QED
    BY <1>0, <1>01, <2>1, NobodyPuts, ShrinksCap
<1>02. ASSUME Reboot, Live' \subseteq Live PROVE CapInv'
  <2>1. \A s \in Procs : pc'[s] # "put"
    BY <1>02 DEF Reboot
  <2> QED
    BY <1>02, <2>1, NobodyPuts, ShrinksCap
<1>1. ASSUME NEW r \in PRs, Opened(r) \/ Updated(r) \/ Closed(r) PROVE CapInv'
  <2>1. store' = store
    BY <1>1 DEF Opened, Updated, Closed
  <2> QED
    BY <1>00, <1>01, <1>1, <2>1, WebhookMoves
<1>2. ASSUME NEW r \in PRs, Commented(r) PROVE CapInv'
  <2>1. store' = store
    BY <1>2 DEF Commented
  <2> QED
    BY <1>0, <1>01, <1>2, <2>1, CommentMoves
<1>3. ASSUME NEW r \in PRs, ForgetPR(r) PROVE CapInv'
  BY <1>00, <1>3 DEF ForgetPR
<1>4. ASSUME NEW k \in Keys, Requested(k) PROVE CapInv'
  <2>1. store' = store
    BY <1>4 DEF Requested
  <2> QED
    BY <1>01, <1>4, <2>1, RequestMoves
<1>5. ASSUME NEW k \in Keys, Prune(k) \/ AppExits(k) PROVE CapInv'
  BY <1>00, <1>5 DEF Prune, AppExits
<1>6. ASSUME NEW k \in Keys, CliDestroy(k) PROVE CapInv'
  <2>1. Reboot /\ (store' = store \/ Put(k, Absent))
    BY <1>6 DEF CliDestroy
  <2>2. Live' \subseteq Live
    BY <2>1 DEF Put, Live
  <2> QED
    BY <1>02, <2>1, <2>2
<1>7. CASE Restart
  BY <1>0, <1>02, <1>7 DEF Restart
<1>8. CASE Outage \/ Recovery
  BY <1>00, <1>8 DEF Outage, Recovery
<1> QED
  BY <1>1, <1>2, <1>3, <1>4, <1>5, <1>6, <1>7, <1>8, Zenon DEF Environment

\* Below the limit: the put that follows adds one.
LEMMA CheckCapacityCap ==
  ASSUME TypeOK, SeqInv, CapInv, NEW self \in Procs, CheckCapacity(self)
  PROVE  CapInv'
<1>1. /\ pc[self] = "capacity" /\ store' = store
      /\ Return(self, loc[self], IF AtCapacity THEN "deploy" ELSE "put")
  BY DEF CheckCapacity
<1>2. /\ Only(self)
      /\ pc'[self] = "put" => ~AtCapacity
  BY <1>1, ReturnOnly
<1>3. \A s \in Procs : pc'[s] = "put" => ~AtCapacity
  BY <1>1, <1>2 DEF SeqInv, Alone, Only
<1>4. ~AtCapacity => Cardinality(Live) < MaxPreviews
  BY FS_CardinalityType, PartsAssumption DEF AtCapacity, CapInv
<1>5. Live' = Live
  BY <1>1 DEF Live
<1> QED
  BY <1>3, <1>4, <1>5 DEF CapInv, CapacityRespected

LEMMA PutBuildingCap ==
  ASSUME TypeOK, SeqInv, CapInv, NEW self \in Procs, PutBuilding(self)
  PROVE  CapInv'
<1>1. /\ pc[self] = "put" /\ Put(Key(self), loc[self].p)
      /\ PublishThen(self, loc[self], "acquire") /\ Key(self) \in Keys
  BY KeyType DEF PutBuilding
<1>2. Only(self) /\ pc'[self] # "put"
  BY <1>1, PublishThenOnly
<1>3. \A s \in Procs : pc'[s] # "put"
  BY <1>1, <1>2 DEF SeqInv, Alone, Only
<1>4. CASE store[Key(self)] # Absent
  BY <1>1, <1>3, <1>4, PutShrinks, NobodyPuts, ShrinksCap
<1>5. CASE store[Key(self)] = Absent
  <2>1. Cardinality(Live) < MaxPreviews /\ IsFiniteSet(Live)
    BY <1>1, <1>5 DEF CapInv
  <2>2. Live' \subseteq Live \cup {Key(self)}
    BY <1>1 DEF Put, Live
  <2>3. /\ IsFiniteSet(Live \cup {Key(self)})
        /\ Cardinality(Live \cup {Key(self)}) <= Cardinality(Live) + 1
    <3>1. Cardinality(Live) \in Nat
      BY <2>1, FS_CardinalityType
    <3>2. /\ IsFiniteSet(Live \cup {Key(self)})
          /\ \/ Cardinality(Live \cup {Key(self)}) = Cardinality(Live)
             \/ Cardinality(Live \cup {Key(self)}) = Cardinality(Live) + 1
      BY <2>1, FS_AddElement, Zenon
    <3> QED
      BY <3>1, <3>2
  <2>4. IsFiniteSet(Live') /\ Cardinality(Live') <= Cardinality(Live) + 1
    BY <2>2, <2>3, FS_Subset, FS_CardinalityType
  <2>5. CapacityRespected'
    BY <2>1, <2>4, FS_CardinalityType, PartsAssumption DEF CapacityRespected
  <2> QED
    BY <1>3, <2>4, <2>5 DEF CapInv
<1> QED
  BY <1>4, <1>5

LEMMA TickCap ==
  ASSUME TypeOK, CapInv, Sequential, NEW elapsed \in BOOLEAN, Tick(elapsed)
  PROVE  CapInv'
<1>1. \A s \in Procs : pc[s] = "idle"
  BY Rested DEF Tick
<1>2. /\ pc'[Loop] = "ps" /\ \A s \in Procs \ {Loop} : pc'[s] = pc[s]
      /\ \A k \in Keys : store'[k] = store[k] \/ store'[k] = Older(store[k])
  BY TickBegins DEF Tick
<1>3. Live' \subseteq Live
  BY <1>2, OlderKeeps DEF Live
<1>4. \A s \in Procs : pc'[s] # "put"
  BY <1>1, <1>2
<1> QED
  BY <1>3, <1>4, NobodyPuts, ShrinksCap

LEMMA NextCap ==
  ASSUME TypeOK, SeqInv, CapInv, Sequential, [Next]_vars
  PROVE  CapInv'
<1>1. CASE Environment
  BY <1>1, EnvironmentCap
<1>2. CASE \E elapsed \in BOOLEAN : Tick(elapsed)
  BY <1>2, TickCap
<1>3. CASE LoopStep
  BY <1>3, LoopShrinks, ShrinksCap
<1>4. ASSUME NEW g \in Goroutines, GoroutineStep(g) PROVE CapInv'
  BY <1>4, CheckCapacityCap, PutBuildingCap, DeployShrinks, HandlerShrinks,
     ShrinksCap DEF GoroutineStep, Procs
<1>5. CASE UNCHANGED vars
  BY <1>5 DEF vars, CapInv, CapacityRespected, Live, Key
<1> QED
  BY <1>1, <1>2, <1>3, <1>4, <1>5 DEF Next

LEMMA InitCap ==
  ASSUME IsFiniteSet(Deployed), Cardinality(Deployed) <= MaxPreviews
  PROVE  Init => CapInv
<1> SUFFICES ASSUME Init PROVE CapInv
  OBVIOUS
<1>1. \A k \in Keys : k \in Deployed <=> store[k] # Absent
  BY DEF Init, If, DeployedPreview, Absent
<1>2. Live = Deployed
  BY <1>1, PartsAssumption DEF Live
<1> QED
  BY <1>2 DEF CapInv, CapacityRespected, Init

\* One goroutine at a time the limit is kept, with no hypothesis on the causes
\* of OverLimitHasCause (CapacityHeld of RoutableProofs has one).
THEOREM CapacityAlone ==
  ASSUME Sequential, IsFiniteSet(Deployed), Cardinality(Deployed) <= MaxPreviews
  PROVE  Spec => []CapacityRespected
<1>1. Init => SeqInv /\ CapInv
  BY InitFits, InitCap
<1>2. TypeOK /\ SeqInv /\ CapInv /\ [Next]_vars => SeqInv' /\ CapInv'
  BY NextFits, NextCap
<1>3. CapInv => CapacityRespected
  BY DEF CapInv
<1> QED
  BY <1>1, <1>2, <1>3, TypeCorrect, PTL DEF Spec
=============================================================================
