-------------------------- MODULE FitsChartsProofs --------------------------
(***************************************************************************)
(* Proofs about FitsCharts: the list, the map and the chart never mix two  *)
(* answers, and for a user who waits for each answer everything that is    *)
(* kept and shown is that of its parameter.  The inductive invariant IInv  *)
(* says what the requests that are out have to do with the page.           *)
(***************************************************************************)
EXTENDS FitsCharts, FitsSiteMapProofs

\* A page that has no list of parameters has nothing.
StartOK ==
    /\ offered # {} => selectedParam \in Params
    /\ chartButton => selectedParam \in Params
    /\ listed # {} => selectedParam \in Params
    /\ selectedParam = None =>
           /\ \A p \in Params : allSitesData[p] = None
           /\ \A k \in Keys : allDygraphData[k] = None

\* Sites and results are asked for by a page that has a parameter selected;
\* the list of parameters is asked for before, and alone.
RequestsOK ==
    \A x \in Slots :
        /\ xhr[x].kind \in {"sites", "results"} =>
               xhr[x].param \in Params /\ selectedParam \in Params
        /\ xhr[x].kind = "results" => xhr[x].sites \in Picks
        /\ xhr[x].kind = "types" =>
               /\ selectedParam = None
               /\ \A y \in Slots : y # x => xhr[y] = Idle

\* The list and the markers are one answer.
ListOK ==
    /\ listed = allSiteMarkers
    /\ listed \in {SitesOf[p] : p \in Params} \cup {{}}
    /\ popup \in listed \cup {None}
    /\ picked \subseteq listed
    /\ picked \in Picks

\* A user who waits has one request out, for the parameter selected.
OneRequest ==
    trouble # "hurried" =>
        /\ \A x, y \in Slots : xhr[x] # Idle /\ xhr[y] # Idle => x = y
        /\ \A x \in Slots : xhr[x].kind \in {"sites", "results"} =>
               xhr[x].param = selectedParam

IInv ==
    /\ MapInv
    /\ TypeOK
    /\ StartOK
    /\ RequestsOK
    /\ ListOK
    /\ OneChart
    /\ OneRequest
    /\ DataByParam
    /\ ShowsSelected
    /\ AskedOnce

(***************************************************************************)
(* Sending and showing.                                                    *)
(***************************************************************************)

LEMMA IdleType == Idle \in Request /\ Idle.kind = "idle"
BY DEF Idle, Request, ParamOrNone

\* A request goes into a slot that was idle and leaves the others alone.
LEMMA Sent ==
    ASSUME NEW kind, NEW param, NEW sites, xhr \in [Slots -> Request],
           GetJSON(kind, param, sites)
    PROVE  \E x \in Slots :
              /\ xhr[x] = Idle
              /\ xhr'[x] = [kind |-> kind, param |-> param, sites |-> sites]
              /\ \A y \in Slots \ {x} : xhr'[y] = xhr[y]
<1> DEFINE x == CHOOSE y \in Slots \ Out : TRUE
<1>1. \E y \in Slots \ Out : TRUE
    BY DEF GetJSON, Out
<1>2. x \in Slots \ Out
    BY <1>1
<1>3. x \in Slots /\ xhr[x] = Idle
    BY <1>2 DEF Out
<1>4. xhr' = [xhr EXCEPT ![x] = [kind |-> kind, param |-> param, sites |-> sites]]
    BY DEF GetJSON
<1> HIDE DEF x
<1>5. QED
    BY <1>3, <1>4

\* A slot that is emptied.
LEMMA Ended ==
    ASSUME NEW x \in Slots, xhr \in [Slots -> Request], End(x)
    PROVE  /\ xhr' \in [Slots -> Request]
           /\ xhr'[x] = Idle
           /\ \A y \in Slots \ {x} : xhr'[y] = xhr[y]
BY IdleType DEF End

\* What a handler that shows an answer leaves on the page.
LEMMA ShowData ==
    ASSUME MapInv, NEW key \in Params, NEW q \in Params, ShowSitesData(key, q)
    PROVE  /\ MapInv'
           /\ listed' = SitesOf[q] /\ allSiteMarkers' = SitesOf[q]
           /\ listed' \in SUBSET Sites
           /\ picked' = {} /\ popup' = None
<1>1. SitesOf[q] \in SUBSET Sites
    BY SitesAssumption
<1>2. ShowSitesDataOnMap(key, SitesOf[q])
    BY DEF ShowSitesData
<1>3. MapInv'
    BY <1>1, <1>2, ShowInv
<1>4. allSiteMarkers' = SitesOf[q]
    BY <1>2 DEF ShowSitesDataOnMap
<1>5. QED
    BY <1>1, <1>3, <1>4 DEF ShowSitesData, ShowSitesDataSelection

LEMMA MapInvUnchanged == MapInv /\ UNCHANGED mapVars => MapInv'
BY MapInvStep

\* What is drawn has its type, and there is one of it at most.
LEMMA Drawn ==
    ASSUME NEW p \in Params, NEW S \in SUBSET Sites, NEW key \in Params,
           NEW codes \in {"sites", "param"}, selectedParam \in Params,
           MakeDygraphPlot(p, S, key, codes)
    PROVE  /\ allDygraph' \in [Params -> Chart]
           /\ OneChart'
           /\ \A r \in Params : allDygraph'[r] # NoChart =>
                 r = key /\ allDygraph'[r].param = p
                 /\ allDygraph'[r].title = selectedParam
<1>1. NoChart \in Chart
    BY DEF NoChart, Chart, ParamOrNone
<1> DEFINE c == [param |-> p, sites |-> S, title |-> selectedParam, labels |-> codes]
<1>2. c \in Chart /\ c.param = p /\ c.title = selectedParam
    BY DEF Chart, ParamOrNone
<1>3. \/ allDygraph' = [ClearDgCharts EXCEPT ![key] = c]
      \/ allDygraph' = ClearDgCharts
    BY DEF MakeDygraphPlot, GetDygraphChartOpts
<1> HIDE DEF c
<1>4. \A r \in Params : allDygraph'[r] = NoChart \/ (r = key /\ allDygraph'[r] = c)
    BY <1>3 DEF ClearDgCharts
<1>5. allDygraph' \in [Params -> Chart]
    BY <1>1, <1>2, <1>3 DEF ClearDgCharts
<1>6. QED
    BY <1>2, <1>4, <1>5 DEF OneChart

(***************************************************************************)
(* The initial page.                                                       *)
(***************************************************************************)
LEMMA PageInit == InitChartParams => IInv
<1> SUFFICES ASSUME InitChartParams PROVE IInv
    OBVIOUS
<1>1. MapInv
    BY InitInv DEF InitChartParams
<1>2. NoChart \in Chart
    BY DEF NoChart, Chart, ParamOrNone
<1> DEFINE first == CHOOSE y \in Slots : TRUE
<1>3. /\ xhr \in [Slots -> Request]
      /\ \A x \in Slots : xhr[x] = Idle \/ (x = first /\ xhr[x].kind = "types")
    BY IdleType DEF InitChartParams, Request, ParamOrNone
<1> HIDE DEF first
<1>4. TypeOK
    BY <1>1, <1>2, <1>3 DEF InitChartParams, TypeOK, MapInv, ParamOrNone, Troubles
<1>5. RequestsOK
    BY <1>3, IdleType DEF InitChartParams, RequestsOK
<1>6. StartOK /\ ListOK
    BY ChartsAssumption DEF InitChartParams, InitBaseMap, ListOK, StartOK
<1>7. OneChart /\ OneRequest
    BY <1>3, IdleType DEF InitChartParams, OneChart, OneRequest
<1>8. DataByParam /\ ShowsSelected /\ AskedOnce
    BY <1>3, IdleType DEF InitChartParams, DataByParam, SitesDataByParam,
       ShowsSelected, AskedOnce
<1>9. QED
    BY <1>1, <1>4, <1>5, <1>6, <1>7, <1>8 DEF IInv

(***************************************************************************)
(* The user's steps.                                                       *)
(***************************************************************************)

\* Another parameter whose sites are kept.
LEMMA ChangeParamKept ==
    ASSUME IInv, NEW p \in Params, ChangeParam(p), allSitesData[p] # None
    PROVE  IInv'
<1> DEFINE q == allSitesData[p]
<1>1. q \in Params
    BY DEF IInv, TypeOK, ParamOrNone
<1>2. ShowSitesData(p, q) /\ UNCHANGED xhr
    BY DEF ChangeParam, ShowSites
<1>3. /\ MapInv'
      /\ listed' = SitesOf[q] /\ allSiteMarkers' = SitesOf[q]
      /\ listed' \in SUBSET Sites
      /\ picked' = {} /\ popup' = None
    BY <1>1, <1>2, ShowData DEF IInv
<1>4. /\ selectedParam' = p /\ p # None
      /\ trouble' = IF Out # {} THEN "hurried" ELSE trouble
      /\ UNCHANGED <<xhr, offered, chartButton, allSitesData, allDygraphData, allDygraph>>
    BY <1>2, ChartsAssumption DEF ChangeParam
<1>5. trouble' # "hurried" =>
          trouble' = trouble /\ \A x \in Slots : xhr[x] = Idle
    BY <1>4 DEF Out
<1>6. TypeOK'
    BY <1>3, <1>4 DEF IInv, TypeOK, MapInv, ParamOrNone, Troubles
<1>7. StartOK' /\ RequestsOK'
    <2>1. offered # {} /\ selectedParam \in Params
        BY DEF IInv, StartOK, ChangeParam
    <2>2. \A x \in Slots : xhr[x].kind # "types"
        BY <2>1, ChartsAssumption DEF IInv, RequestsOK
    <2>3. QED
        BY <1>4, <2>2 DEF IInv, RequestsOK, StartOK
<1>8. ListOK'
    BY <1>1, <1>3, ChartsAssumption DEF ListOK
<1>9. OneChart'
    BY <1>4 DEF IInv, OneChart
<1>10. OneRequest' /\ AskedOnce'
    BY <1>4, <1>5, IdleType DEF OneRequest, AskedOnce
<1>11. DataByParam'
    BY <1>4, <1>5 DEF IInv, DataByParam, SitesDataByParam
<1>12. ShowsSelected'
    <2>1. trouble' = "none" => q = p
        BY <1>1, <1>5, ChartsAssumption DEF IInv, DataByParam, SitesDataByParam
    <2>2. trouble' = "none" => ListsSelected'
        BY <1>3, <1>4, <2>1 DEF ListsSelected
    <2>3. trouble' = "none" =>
              trouble = "none" /\ \A x \in Slots : xhr'[x].kind = "idle"
        BY <1>4, <1>5, IdleType
    <2>4. QED
        BY <1>4, <2>2, <2>3 DEF IInv, ShowsSelected
<1>13. QED
    BY <1>3, <1>6, <1>7, <1>8, <1>9, <1>10, <1>11, <1>12 DEF IInv

\* Another parameter whose sites are asked for.
LEMMA ChangeParamAsks ==
    ASSUME IInv, NEW p \in Params, ChangeParam(p), allSitesData[p] = None
    PROVE  IInv'
<1>1. GetJSON("sites", p, {}) /\ UNCHANGED <<mapVars, listed, picked, popup>>
    BY DEF ChangeParam, ShowSites
<1>2. xhr \in [Slots -> Request]
    BY DEF IInv, TypeOK
<1>3. PICK x \in Slots :
          /\ xhr[x] = Idle
          /\ xhr'[x] = [kind |-> "sites", param |-> p, sites |-> {}]
          /\ \A y \in Slots \ {x} : xhr'[y] = xhr[y]
    BY <1>1, <1>2, Sent
<1>4. xhr' \in [Slots -> Request]
    BY <1>1, <1>2 DEF GetJSON, Request, ParamOrNone
<1>5. /\ selectedParam' = p /\ p # None
      /\ trouble' = IF Out # {} THEN "hurried" ELSE trouble
      /\ UNCHANGED <<offered, chartButton, allSitesData, allDygraphData, allDygraph>>
      /\ UNCHANGED <<allSiteMarkers, listed, picked, popup>>
    BY <1>1, ChartsAssumption DEF ChangeParam, mapVars
<1>6. trouble' # "hurried" =>
          trouble' = trouble /\ \A y \in Slots : xhr[y] = Idle
    BY <1>5 DEF Out
<1>7. MapInv'
    BY <1>1, MapInvUnchanged DEF IInv
<1>8. TypeOK'
    BY <1>4, <1>5, <1>7 DEF IInv, TypeOK, MapInv, ParamOrNone, Troubles
<1>9. StartOK' /\ RequestsOK'
    <2>1. offered # {} /\ selectedParam \in Params
        BY DEF IInv, StartOK, ChangeParam
    <2>2. \A y \in Slots : xhr[y].kind # "types"
        BY <2>1, ChartsAssumption DEF IInv, RequestsOK
    <2>3. StartOK'
        BY <1>5 DEF StartOK
    <2>4. \A y \in Slots : y # x => xhr'[y] = xhr[y]
        BY <1>3
    <2>5. RequestsOK'
        BY <1>3, <1>5, <2>2, <2>4 DEF IInv, RequestsOK
    <2>6. QED
        BY <2>3, <2>5
<1>10. ListOK' /\ OneChart'
    BY <1>5 DEF IInv, ListOK, OneChart
<1>11. ASSUME trouble' # "hurried"
       PROVE  \A y \in Slots : y # x => xhr'[y] = Idle /\ xhr'[y].kind = "idle"
    BY <1>3, <1>6, <1>11, IdleType
<1>12. OneRequest' /\ AskedOnce'
    BY <1>3, <1>5, <1>11 DEF OneRequest, AskedOnce
<1>13. DataByParam'
    BY <1>5, <1>6 DEF IInv, DataByParam, SitesDataByParam
<1>14. ShowsSelected'
    BY <1>3, <1>5, <1>6, <1>11 DEF IInv, ShowsSelected
<1>15. QED
    BY <1>7, <1>8, <1>9, <1>10, <1>12, <1>13, <1>14 DEF IInv

\* Another choice of sites.
LEMMA ChangeSitesInv ==
    ASSUME IInv, NEW S \in Picks, ChangeSites(S)
    PROVE  IInv'
<1>1. /\ S \subseteq listed /\ picked' = S /\ chartButton' = TRUE
      /\ UNCHANGED <<offered, selectedParam, listed, xhr, allSitesData,
                     allDygraphData, allDygraph, trouble>>
    BY DEF ChangeSites
<1>2. MapInv' /\ allSiteMarkers' = allSiteMarkers
    <2>1. CASE UNCHANGED mapVars
        BY <2>1, MapInvUnchanged DEF IInv, mapVars
    <2>2. CASE \E v \in Views : MoveMap(v)
        <3>1. PICK v \in Views : MoveMap(v)
            BY <2>2
        <3>2. MapInv'
            BY <3>1, MoveInv DEF IInv
        <3>3. QED
            BY <3>1, <3>2 DEF MoveMap
    <2>3. QED
        BY <2>1, <2>2 DEF ChangeSites, ShowSitePopup
<1>3. popup' = popup \/ popup' \in S
    BY DEF ChangeSites, ShowSitePopup
<1>4. MapInv'
    BY <1>2
<1>5. popup' \in listed \cup {None} /\ popup' \in Sites \cup {None}
    BY <1>1, <1>3 DEF IInv, ListOK, TypeOK
<1>6. TypeOK'
    BY <1>1, <1>4, <1>5 DEF IInv, TypeOK, MapInv
<1>7. StartOK'
    <2>1. CASE listed = {}
        <3>1. S = {} /\ picked = {}
            BY <1>1, <2>1 DEF IInv, ListOK
        <3>2. QED
            BY <3>1 DEF ChangeSites
    <2>2. CASE listed # {}
        BY <1>1, <2>2 DEF IInv, StartOK
    <2>3. QED
        BY <2>1, <2>2
<1>8. ListOK'
    BY <1>1, <1>2, <1>5 DEF IInv, ListOK
<1>9. RequestsOK' /\ OneChart' /\ OneRequest'
    BY <1>1 DEF IInv, RequestsOK, OneChart, OneRequest
<1>10. DataByParam' /\ ShowsSelected' /\ AskedOnce'
    BY <1>1 DEF IInv, DataByParam, SitesDataByParam, ShowsSelected, ListsSelected, AskedOnce
<1>11. QED
    BY <1>4, <1>6, <1>7, <1>8, <1>9, <1>10 DEF IInv

\* Show Charts with the results at hand.
LEMMA ClickKept ==
    ASSUME IInv, ClickChart, allDygraphData[<<selectedParam, picked>>] # None
    PROVE  IInv'
<1> DEFINE cached == allDygraphData[<<selectedParam, picked>>]
<1>1. /\ selectedParam \in Params /\ picked \in Picks /\ picked \in SUBSET Sites
      /\ <<selectedParam, picked>> \in Keys
    BY DEF IInv, StartOK, ListOK, TypeOK, ClickChart, Keys
<1>2. cached \in Params
    BY <1>1 DEF IInv, TypeOK, ParamOrNone
<1>3. MakeDygraphPlot(cached, picked, selectedParam, "param") /\ UNCHANGED xhr
    BY DEF ClickChart, MakeDgChart, CheckSelectedSites
<1>4. /\ trouble' = IF Out # {} THEN "hurried" ELSE trouble
      /\ UNCHANGED <<mapVars, offered, selectedParam, listed, picked, chartButton,
                     popup, allSitesData, allDygraphData>>
    BY DEF ClickChart
<1>5. /\ allDygraph' \in [Params -> Chart]
      /\ OneChart'
      /\ \A r \in Params : allDygraph'[r] # NoChart =>
             r = selectedParam /\ allDygraph'[r].param = cached
             /\ allDygraph'[r].title = selectedParam
    BY <1>1, <1>2, <1>3, Drawn
<1>6. trouble' # "hurried" => trouble' = trouble
    BY <1>4
<1>7. MapInv' /\ allSiteMarkers' = allSiteMarkers
    BY <1>4, MapInvUnchanged DEF IInv, mapVars
<1>8. TypeOK'
    BY <1>3, <1>4, <1>5, <1>7 DEF IInv, TypeOK, MapInv, Troubles
<1>9. StartOK' /\ RequestsOK' /\ ListOK' /\ OneRequest'
    BY <1>3, <1>4, <1>6, <1>7 DEF IInv, StartOK, RequestsOK, ListOK, OneRequest
<1>10. DataByParam'
    <2>1. trouble # "hurried" => cached = selectedParam
        BY <1>1, <1>2, ChartsAssumption DEF IInv, DataByParam
    <2> HIDE DEF cached
    <2>2. QED
        BY <1>4, <1>5, <1>6, <2>1 DEF IInv, DataByParam, SitesDataByParam
<1>11. ShowsSelected' /\ AskedOnce'
    BY <1>3, <1>4, <1>6 DEF IInv, ShowsSelected, ListsSelected, AskedOnce
<1>12. QED
    BY <1>5, <1>7, <1>8, <1>9, <1>10, <1>11 DEF IInv

\* Show Charts that asks for the results.
LEMMA ClickAsks ==
    ASSUME IInv, ClickChart, allDygraphData[<<selectedParam, picked>>] = None
    PROVE  IInv'
<1>1. /\ selectedParam \in Params /\ picked \in Picks /\ picked \in SUBSET Sites
      /\ picked \subseteq listed /\ selectedParam # None
    BY ChartsAssumption DEF IInv, StartOK, ListOK, TypeOK, ClickChart
<1>2. /\ picked # {} /\ GetJSON("results", selectedParam, picked)
      /\ UNCHANGED allDygraph
    BY DEF ClickChart, MakeDgChart, QueryChartResults, CheckSelectedSites
<1>3. /\ trouble' = IF Out # {} THEN "hurried" ELSE trouble
      /\ UNCHANGED <<mapVars, offered, selectedParam, listed, picked, chartButton,
                     popup, allSitesData, allDygraphData>>
    BY DEF ClickChart
<1>4. xhr \in [Slots -> Request]
    BY DEF IInv, TypeOK
<1>5. PICK x \in Slots :
          /\ xhr[x] = Idle
          /\ xhr'[x] = [kind |-> "results", param |-> selectedParam, sites |-> picked]
          /\ \A y \in Slots \ {x} : xhr'[y] = xhr[y]
    BY <1>2, <1>4, Sent
<1>6. xhr' \in [Slots -> Request]
    BY <1>1, <1>2, <1>4 DEF GetJSON, Request, ParamOrNone
<1>7. trouble' # "hurried" =>
          trouble' = trouble /\ \A y \in Slots : xhr[y] = Idle
    BY <1>3 DEF Out
<1>8. MapInv' /\ allSiteMarkers' = allSiteMarkers
    BY <1>3, MapInvUnchanged DEF IInv, mapVars
<1>9. TypeOK'
    BY <1>2, <1>3, <1>6, <1>8 DEF IInv, TypeOK, MapInv, Troubles
<1>10. StartOK' /\ ListOK' /\ OneChart'
    BY <1>2, <1>3, <1>8 DEF IInv, StartOK, ListOK, OneChart
<1>11. RequestsOK'
    <2>1. \A y \in Slots : xhr[y].kind # "types"
        BY <1>1, ChartsAssumption DEF IInv, RequestsOK
    <2>2. \A y \in Slots : y # x => xhr'[y] = xhr[y]
        BY <1>5
    <2>3. QED
        BY <1>1, <1>3, <1>5, <2>1, <2>2 DEF IInv, RequestsOK
<1>12. ASSUME trouble' # "hurried"
       PROVE  \A y \in Slots : y # x => xhr'[y] = Idle /\ xhr'[y].kind = "idle"
    BY <1>5, <1>7, <1>12, IdleType
<1>13. OneRequest' /\ AskedOnce'
    BY <1>3, <1>5, <1>12 DEF OneRequest, AskedOnce
<1>14. DataByParam'
    BY <1>2, <1>3, <1>7 DEF IInv, DataByParam, SitesDataByParam
<1>15. ShowsSelected'
    <2> SUFFICES ASSUME trouble' = "none" PROVE ShowsSelected'
        BY DEF ShowsSelected
    <2>1. trouble = "none" /\ \A y \in Slots : xhr[y].kind = "idle"
        BY <1>7, IdleType
    <2>2. ListsSelected
        BY <1>1, <2>1 DEF IInv, ShowsSelected
    <2>3. listed = SitesOf[selectedParam] /\ ListsSelected'
        BY <1>3, <2>2 DEF ListsSelected
    <2>4. HasRows(selectedParam, picked)
        BY <1>1, <1>2, <2>3 DEF HasRows
    <2>5. QED
        BY <1>3, <1>5, <1>12, <2>1, <2>3, <2>4 DEF IInv, ShowsSelected
<1>16. QED
    BY <1>8, <1>9, <1>10, <1>11, <1>13, <1>14, <1>15 DEF IInv

\* The map is dragged.
LEMMA DragInv ==
    ASSUME IInv, NEW v \in Views, DragMap(v)
    PROVE  IInv'
<1>1. MapInv' /\ allSiteMarkers' = allSiteMarkers
    BY MoveInv DEF IInv, DragMap, MoveMap
<1>2. UNCHANGED pageVars
    BY DEF DragMap
<1>3. TypeOK' /\ StartOK' /\ RequestsOK' /\ ListOK' /\ OneChart' /\ OneRequest'
    BY <1>1, <1>2 DEF IInv, pageVars, TypeOK, MapInv, StartOK, RequestsOK, ListOK,
       OneChart, OneRequest
<1>4. DataByParam' /\ ShowsSelected' /\ AskedOnce'
    BY <1>2 DEF IInv, pageVars, DataByParam, SitesDataByParam, ShowsSelected,
       ListsSelected, AskedOnce
<1>5. QED
    BY <1>1, <1>3, <1>4 DEF IInv

(***************************************************************************)
(* The ends of requests.                                                   *)
(***************************************************************************)

\* The parameters come.
LEMMA TypesInv ==
    ASSUME IInv, NEW x \in Slots, AnswerTypes(x)
    PROVE  IInv'
<1>1. /\ selectedParam = None
      /\ \A y \in Slots : y # x => xhr[y] = Idle
    BY DEF IInv, RequestsOK, AnswerTypes
<1>2. /\ \A p \in Params : allSitesData[p] = None
      /\ \A k \in Keys : allDygraphData[k] = None
    BY <1>1 DEF IInv, StartOK
<1>3. /\ offered' = Params /\ selectedParam' = FirstParam
      /\ FirstParam \in Params /\ FirstParam # None
      /\ UNCHANGED <<mapVars, listed, picked, chartButton, popup, allSitesData,
                     allDygraphData, allDygraph, trouble>>
    BY ChartsAssumption DEF AnswerTypes
<1>4. /\ xhr' \in [Slots -> Request]
      /\ xhr'[x] = [kind |-> "sites", param |-> FirstParam, sites |-> {}]
      /\ \A y \in Slots : y # x => xhr'[y] = xhr[y]
    BY <1>3 DEF AnswerTypes, IInv, TypeOK, Request, ParamOrNone
<1>5. \A y \in Slots : y # x => xhr'[y] = Idle /\ xhr'[y].kind = "idle"
    BY <1>1, <1>4, IdleType
<1>6. MapInv' /\ allSiteMarkers' = allSiteMarkers
    BY <1>3, MapInvUnchanged DEF IInv, mapVars
<1>7. TypeOK'
    BY <1>3, <1>4, <1>6 DEF IInv, TypeOK, MapInv, ParamOrNone
<1>8. StartOK' /\ RequestsOK' /\ ListOK' /\ OneChart' /\ OneRequest'
    BY <1>3, <1>4, <1>5, <1>6 DEF IInv, StartOK, RequestsOK, ListOK, OneChart, OneRequest
<1>9. DataByParam'
    BY <1>3 DEF IInv, DataByParam, SitesDataByParam
<1>10. ShowsSelected' /\ AskedOnce'
    BY <1>2, <1>3, <1>4, <1>5 DEF ShowsSelected, AskedOnce
<1>11. QED
    BY <1>6, <1>7, <1>8, <1>9, <1>10 DEF IInv

\* The sites come.
LEMMA SitesInv ==
    ASSUME IInv, NEW x \in Slots, AnswerSites(x)
    PROVE  IInv'
<1> DEFINE q == xhr[x].param
<1>1. q \in Params /\ selectedParam \in Params /\ selectedParam # None
    BY ChartsAssumption DEF IInv, RequestsOK, AnswerSites
<1>2. /\ MapInv'
      /\ listed' = SitesOf[q] /\ allSiteMarkers' = SitesOf[q]
      /\ listed' \in SUBSET Sites
      /\ picked' = {} /\ popup' = None
    BY <1>1, ShowData DEF IInv, AnswerSites
<1>3. /\ allSitesData' = [allSitesData EXCEPT ![selectedParam] = q]
      /\ UNCHANGED <<offered, selectedParam, chartButton, allDygraphData,
                     allDygraph, trouble>>
    BY DEF AnswerSites
<1>4. /\ xhr' \in [Slots -> Request]
      /\ xhr'[x] = Idle /\ xhr'[x].kind = "idle"
      /\ \A y \in Slots : y # x => xhr'[y] = xhr[y]
    BY Ended, IdleType DEF AnswerSites, IInv, TypeOK
<1>5. TypeOK'
    BY <1>1, <1>2, <1>3, <1>4 DEF IInv, TypeOK, MapInv, ParamOrNone
<1>6. StartOK' /\ OneChart'
    BY <1>1, <1>3 DEF IInv, StartOK, OneChart
<1>7. ListOK'
    BY <1>1, <1>2, ChartsAssumption DEF ListOK
<1>8. RequestsOK' /\ OneRequest'
    BY <1>1, <1>3, <1>4, ChartsAssumption DEF IInv, RequestsOK, OneRequest
<1>9. trouble # "hurried" =>
          q = selectedParam /\ \A y \in Slots : y # x => xhr[y] = Idle
    BY <1>1 , IdleType DEF IInv, OneRequest, AnswerSites
<1>10. DataByParam'
    <2>1. trouble # "hurried" => \A p \in Params : allSitesData'[p] \in {p, None}
        BY <1>3, <1>9 DEF IInv, DataByParam, SitesDataByParam, TypeOK
    <2>2. QED
        BY <1>3, <2>1 DEF IInv, DataByParam, SitesDataByParam
<1>11. ASSUME trouble # "hurried"
       PROVE  \A y \in Slots : xhr'[y].kind = "idle"
    BY <1>4, <1>9, <1>11, IdleType
<1>12. AskedOnce'
    BY <1>3, <1>11 DEF AskedOnce
<1>13. ShowsSelected'
    <2>1. trouble = "none" => ListsSelected'
        BY <1>1, <1>2, <1>3, <1>9 DEF ListsSelected
    <2>2. QED
        BY <1>3, <1>11, <2>1 DEF IInv, ShowsSelected
<1>14. QED
    BY <1>2, <1>5, <1>6, <1>7, <1>8, <1>10, <1>12, <1>13 DEF IInv

\* The results come.
LEMMA ResultsInv ==
    ASSUME IInv, NEW x \in Slots, AnswerResults(x)
    PROVE  IInv'
<1> DEFINE q == xhr[x].param
           S == xhr[x].sites
<1>1. /\ q \in Params /\ selectedParam \in Params /\ selectedParam # None
      /\ S \in Picks /\ S \in SUBSET Sites /\ q # None
      /\ <<selectedParam, S>> \in Keys
    BY ChartsAssumption DEF IInv, RequestsOK, AnswerResults, Keys
<1>2. /\ allDygraphData' = [allDygraphData EXCEPT ![<<selectedParam, S>>] = q]
      /\ MakeDygraphPlot(q, S, q, "sites")
      /\ UNCHANGED <<mapVars, offered, selectedParam, listed, picked, chartButton,
                     popup, allSitesData, trouble>>
    BY DEF AnswerResults, ProcessPlotData
<1>3. /\ xhr' \in [Slots -> Request]
      /\ xhr'[x] = Idle /\ xhr'[x].kind = "idle"
      /\ \A y \in Slots : y # x => xhr'[y] = xhr[y]
    BY Ended, IdleType DEF AnswerResults, IInv, TypeOK
<1>4. trouble # "hurried" =>
          q = selectedParam /\ \A y \in Slots : y # x => xhr[y] = Idle
    BY IdleType DEF IInv, OneRequest, AnswerResults
<1>5. trouble = "none" => HasRows(q, S)
    BY DEF IInv, ShowsSelected, AnswerResults
<1> HIDE DEF q, S
<1>6. /\ allDygraph' \in [Params -> Chart]
      /\ OneChart'
      /\ \A r \in Params : allDygraph'[r] # NoChart =>
             r = q /\ allDygraph'[r].param = q /\ allDygraph'[r].title = selectedParam
    BY <1>1, <1>2, Drawn
<1>7. MapInv' /\ allSiteMarkers' = allSiteMarkers
    BY <1>2, MapInvUnchanged DEF IInv, mapVars
<1>8. /\ allDygraphData' \in [Keys -> ParamOrNone]
      /\ allDygraphData'[<<selectedParam, S>>] = q
      /\ \A k \in Keys : k # <<selectedParam, S>> => allDygraphData'[k] = allDygraphData[k]
    BY <1>1, <1>2 DEF IInv, TypeOK, ParamOrNone
<1>9. TypeOK'
    BY <1>2, <1>3, <1>6, <1>7, <1>8 DEF IInv, TypeOK, MapInv
<1>10. StartOK' /\ ListOK'
    BY <1>1, <1>2, <1>7 DEF IInv, StartOK, ListOK
<1>11. RequestsOK' /\ OneRequest'
    BY <1>1, <1>2, <1>3, ChartsAssumption DEF IInv, RequestsOK, OneRequest
<1>12. DataByParam'
    <2> SUFFICES ASSUME trouble # "hurried" PROVE DataByParam'
        BY <1>2 DEF DataByParam
    <2>1. SitesDataByParam'
        BY <1>2 DEF IInv, DataByParam, SitesDataByParam
    <2>2. ASSUME NEW k \in Keys PROVE allDygraphData'[k] \in {k[1], None}
        <3>1. CASE k = <<selectedParam, S>>
            BY <1>4, <1>8, <3>1
        <3>2. CASE k # <<selectedParam, S>>
            BY <1>8, <3>2 DEF IInv, DataByParam
        <3>3. QED
            BY <3>1, <3>2
    <2>3. QED
        BY <1>4, <1>6, <2>1, <2>2 DEF DataByParam
<1>13. ASSUME trouble # "hurried"
       PROVE  \A y \in Slots : xhr'[y].kind = "idle"
    BY <1>3, <1>4, <1>13, IdleType
<1>14. AskedOnce'
    BY <1>2, <1>13 DEF AskedOnce
<1>15. ShowsSelected'
    <2> SUFFICES ASSUME trouble = "none" PROVE ShowsSelected'
        BY <1>2 DEF ShowsSelected
    <2>1. ListsSelected'
        <3>1. \A y \in Slots : xhr[y].kind # "sites"
            BY <1>4, IdleType DEF AnswerResults
        <3>2. QED
            BY <1>1, <1>2, <3>1 DEF IInv, ShowsSelected, ListsSelected
    <2>2. ASSUME NEW k \in Keys, allDygraphData'[k] # None
          PROVE  HasRows(allDygraphData'[k], k[2])
        <3>1. CASE k = <<selectedParam, S>>
            BY <1>5, <1>8, <3>1
        <3>2. CASE k # <<selectedParam, S>>
            BY <1>8, <2>2, <3>2 DEF IInv, ShowsSelected
        <3>3. QED
            BY <3>1, <3>2
    <2>3. QED
        BY <1>13, <2>1, <2>2 DEF ShowsSelected, HasRows
<1>16. QED
    BY <1>6, <1>7, <1>9, <1>10, <1>11, <1>12, <1>14, <1>15 DEF IInv

\* A request fails.
LEMMA FailInv ==
    ASSUME IInv, NEW x \in Slots, Fail(x)
    PROVE  IInv'
<1>1. /\ UNCHANGED <<mapVars, offered, selectedParam, listed, picked, chartButton,
                     popup, allSitesData, allDygraphData, allDygraph>>
      /\ trouble' = IF trouble = "none" THEN "lost" ELSE trouble
    BY DEF Fail
<1>2. /\ trouble' # "none" /\ trouble' \in Troubles
      /\ trouble' # "hurried" => trouble # "hurried"
    BY <1>1 DEF IInv, TypeOK, Troubles
<1>3. /\ xhr' \in [Slots -> Request]
      /\ xhr'[x] = Idle /\ xhr'[x].kind = "idle"
      /\ \A y \in Slots : y # x => xhr'[y] = xhr[y]
    BY Ended, IdleType DEF Fail, IInv, TypeOK
<1>4. MapInv' /\ allSiteMarkers' = allSiteMarkers
    BY <1>1, MapInvUnchanged DEF IInv, mapVars
<1>5. TypeOK'
    BY <1>1, <1>2, <1>3, <1>4 DEF IInv, TypeOK, MapInv
<1>6. StartOK' /\ ListOK' /\ OneChart'
    BY <1>1, <1>4 DEF IInv, StartOK, ListOK, OneChart
<1>7. RequestsOK'
    BY <1>1, <1>3 DEF IInv, RequestsOK
<1>8. OneRequest' /\ AskedOnce'
    BY <1>1, <1>2, <1>3 DEF IInv, OneRequest, AskedOnce
<1>9. DataByParam' /\ ShowsSelected'
    BY <1>1, <1>2 DEF IInv, DataByParam, SitesDataByParam, ShowsSelected
<1>10. QED
    BY <1>4, <1>5, <1>6, <1>7, <1>8, <1>9 DEF IInv

\* A step of nobody.
LEMMA StutterInv == IInv /\ UNCHANGED vars => IInv'
<1> SUFFICES ASSUME IInv, UNCHANGED vars PROVE IInv'
    OBVIOUS
<1>1. MapInv' /\ allSiteMarkers' = allSiteMarkers /\ UNCHANGED pageVars
    BY MapInvUnchanged DEF IInv, vars, mapVars
<1>2. TypeOK' /\ StartOK' /\ RequestsOK' /\ ListOK' /\ OneChart' /\ OneRequest'
    BY <1>1 DEF IInv, pageVars, TypeOK, MapInv, StartOK, RequestsOK, ListOK,
       OneChart, OneRequest
<1>3. DataByParam' /\ ShowsSelected' /\ AskedOnce'
    BY <1>1 DEF IInv, pageVars, DataByParam, SitesDataByParam, ShowsSelected,
       ListsSelected, AskedOnce
<1>4. QED
    BY <1>1, <1>2, <1>3 DEF IInv

LEMMA PageInvStep == IInv /\ [Next]_vars => IInv'
<1> SUFFICES ASSUME IInv, [Next]_vars PROVE IInv'
    OBVIOUS
<1>1. ASSUME NEW p \in Params, ChangeParam(p) PROVE IInv'
    BY <1>1, ChangeParamKept, ChangeParamAsks
<1>2. ASSUME NEW S \in Picks, ChangeSites(S) PROVE IInv'
    BY <1>2, ChangeSitesInv
<1>3. ASSUME ClickChart PROVE IInv'
    BY <1>3, ClickKept, ClickAsks
<1>4. ASSUME NEW v \in Views, DragMap(v) PROVE IInv'
    BY <1>4, DragInv
<1>5. ASSUME NEW x \in Slots, Ends(x) PROVE IInv'
    BY <1>5, TypesInv, SitesInv, ResultsInv, FailInv DEF Ends
<1>6. ASSUME UNCHANGED vars PROVE IInv'
    BY <1>6, StutterInv
<1>7. QED
    BY <1>1, <1>2, <1>3, <1>4, <1>5, <1>6 DEF Next

(***************************************************************************)
(* The theorems.                                                           *)
(***************************************************************************)

\* In every state of the page what the requests that are out, the list, the
\* map and the charts have to do with each other holds.
THEOREM PageInvariant == Spec => []IInv
<1>1. QED
    BY PageInit, PageInvStep, PTL DEF Spec

\* The variables of the page keep their types.
THEOREM PageTypeCorrect == Spec => []TypeOK
<1>1. IInv => TypeOK
    BY DEF IInv
<1>2. QED
    BY <1>1, PageInvariant, PTL

\* In whatever order the answers come, for any number of requests, the list
\* of sites and the markers of the map are those of one answer.
THEOREM ListAlwaysMap == Spec => []ListIsMap
<1>1. IInv => ListIsMap
    BY DEF IInv, MapInv, ListOK, OneLayerOfMarkers, ListIsMap
<1>2. QED
    BY <1>1, PageInvariant, PTL

\* There is never more than one live chart.
THEOREM OneChartAlways == Spec => []OneChart
<1>1. IInv => OneChart
    BY DEF IInv
<1>2. QED
    BY <1>1, PageInvariant, PTL

\* For a user who waits for each answer, what is kept for a parameter is that
\* parameter's and the chart is titled with what it draws.
THEOREM WaitingKeepsData == Spec => []DataByParam
<1>1. IInv => DataByParam
    BY DEF IInv
<1>2. QED
    BY <1>1, PageInvariant, PTL

\* If moreover no request was lost, the sites listed are those of the
\* parameter selected, and there is something to draw of them.
THEOREM WaitingShowsSelected == Spec => []ShowsSelected
<1>1. IInv => ShowsSelected
    BY DEF IInv
<1>2. QED
    BY <1>1, PageInvariant, PTL

\* Nothing that is kept is asked for again.
THEOREM WaitingAsksOnce == Spec => []AskedOnce
<1>1. IInv => AskedOnce
    BY DEF IInv
<1>2. QED
    BY <1>1, PageInvariant, PTL

\* What the page does to the map is what FitsSiteMap says can be done to it,
\* with the parameters and the sites it has then; so the theorems about the
\* map are theorems about the page.
THEOREM PageImplementsMap == Spec => MapSpec
<1>1. InitChartParams => InitBaseMap
    BY DEF InitChartParams
<1>2. IInv /\ [Next]_vars => [MapNext]_mapVars
    <2> SUFFICES ASSUME IInv, [Next]_vars PROVE [MapNext]_mapVars
        OBVIOUS
    <2>1. ASSUME NEW key \in Params, NEW q \in Params, ShowSitesData(key, q)
          PROVE  MapNext
        BY <2>1 DEF ShowSitesData, MapNext
    <2>2. ASSUME NEW p \in Params, ChangeParam(p) PROVE [MapNext]_mapVars
        <3>1. CASE allSitesData[p] # None
            <4>1. allSitesData[p] \in Params
                BY <3>1 DEF IInv, TypeOK, ParamOrNone
            <4>2. ShowSitesData(p, allSitesData[p])
                BY <2>2, <3>1 DEF ChangeParam, ShowSites
            <4>3. QED
                BY <2>1, <4>1, <4>2
        <3>2. CASE allSitesData[p] = None
            BY <2>2, <3>2 DEF ChangeParam, ShowSites
        <3>3. QED
            BY <3>1, <3>2
    <2>3. ASSUME NEW x \in Slots, AnswerSites(x) PROVE MapNext
        <3>1. xhr[x].param \in Params /\ selectedParam \in Params
            BY <2>3 DEF IInv, RequestsOK, AnswerSites
        <3>2. ShowSitesData(selectedParam, xhr[x].param)
            BY <2>3 DEF AnswerSites
        <3>3. QED
            BY <2>1, <3>1, <3>2
    <2>4. ASSUME NEW S \in Picks, ChangeSites(S) PROVE [MapNext]_mapVars
        BY <2>4 DEF ChangeSites, ShowSitePopup, MapNext
    <2>5. ASSUME ClickChart PROVE UNCHANGED mapVars
        BY <2>5 DEF ClickChart
    <2>6. ASSUME NEW v \in Views, DragMap(v) PROVE MapNext
        BY <2>6 DEF DragMap, MapNext
    <2>7. ASSUME NEW x \in Slots, Fail(x) \/ AnswerTypes(x) \/ AnswerResults(x)
          PROVE  UNCHANGED mapVars
        BY <2>7 DEF Fail, AnswerTypes, AnswerResults
    <2>8. ASSUME UNCHANGED vars PROVE UNCHANGED mapVars
        BY <2>8 DEF vars
    <2>9. QED
        BY <2>2, <2>3, <2>4, <2>5, <2>6, <2>7, <2>8 DEF Next, Ends
<1>3. QED
    BY <1>1, <1>2, PageInvariant, PTL DEF Spec, MapSpec
============================================================================
