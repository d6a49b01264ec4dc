----------------------------- MODULE FitsCharts -----------------------------
(***************************************************************************)
(* The chart page of FITS: ldrChartClient of ldr-map-charts.js, from the   *)
(* moment charts.js starts it.  The browser runs one handler at a time; a  *)
(* getJSON request is answered, or fails, at any later time and in any     *)
(* order, and what its callback does depends on what the page holds then.  *)
(* No request has a handler for its failure.                               *)
(*                                                                         *)
(* The map is FitsSiteMap; every handler that shows sites includes it.     *)
(* selectedParam is also the value of the list of parameters and gives     *)
(* selectedParamName: each handler reads them from the page together.      *)
(* selectedSites is read only by the handler that has just set it, from    *)
(* the options picked.  Static charts (iev > 0) are left out: they are for *)
(* browsers that cannot parse the file.                                    *)
(***************************************************************************)
EXTENDS FitsSiteMap

CONSTANTS
    FirstParam,  \* the first parameter in order of name
    Picks,       \* the sets of sites the user may have picked: bound
    Slots,       \* requests out at one time: bound
    None

ASSUME ChartsAssumption ==
    /\ FirstParam \in Params
    /\ {} \in Picks
    /\ Picks \subseteq SUBSET Sites
    /\ None \notin Params /\ None \notin Sites

VARIABLES
    offered,         \* the options of #selparam
    selectedParam,
    listed,          \* the options of #selSites
    picked,          \* those that are selected
    chartButton,     \* whether #btnChart can be seen
    popup,           \* the site whose popup is open
    xhr,             \* the requests that are out
    allSitesData,    \* by param: the parameter the sites were asked for
    allDygraphData,  \* by param and sites: the parameter of the results
    allDygraph,      \* the charts, by param
    trouble          \* history: the worst that has happened, see Troubles

pageVars == <<offered, selectedParam, listed, picked, chartButton, popup, xhr,
              allSitesData, allDygraphData, allDygraph, trouble>>
vars == <<mapVars, pageVars>>

ParamOrNone == Params \cup {None}
Request == [kind : {"idle", "types", "sites", "results"},
            param : ParamOrNone, sites : SUBSET Sites]
Idle == [kind |-> "idle", param |-> None, sites |-> {}]

(***************************************************************************)
(* A chart: whose results it draws, its title, and whether the labels name *)
(* the sites.                                                              *)
(***************************************************************************)
Chart == [param : ParamOrNone, sites : SUBSET Sites, title : ParamOrNone,
          labels : {"sites", "param"}]
NoChart == [param |-> None, sites |-> {}, title |-> None, labels |-> "sites"]

Keys == Params \X Picks

(***************************************************************************)
(* "lost": a request failed.  "hurried": the user changed the parameter or *)
(* asked for a chart while a request was out; what was lost before or is   *)
(* lost later is not told apart from that.                                 *)
(***************************************************************************)
Troubles == {"none", "lost", "hurried"}

Out == {x \in Slots : xhr[x] # Idle}

(***************************************************************************)
(* jQuery.getJSON; a slot that is free is taken.                           *)
(***************************************************************************)
GetJSON(kind, param, sites) ==
    /\ Out # Slots
    /\ xhr' = [xhr EXCEPT ![CHOOSE x \in Slots \ Out : TRUE] =
                  [kind |-> kind, param |-> param, sites |-> sites]]

End(x) == xhr' = [xhr EXCEPT ![x] = Idle]

(***************************************************************************)
(* initChartParams: nothing is offered yet, /type has been asked for.      *)
(***************************************************************************)
InitChartParams ==
    /\ InitBaseMap
    /\ offered = {}
    /\ selectedParam = None
    /\ listed = {}
    /\ picked = {}
    /\ chartButton = FALSE
    /\ popup = None
    /\ xhr = [x \in Slots |->
                 IF x = (CHOOSE y \in Slots : TRUE)
                 THEN [kind |-> "types", param |-> None, sites |-> {}]
                 ELSE Idle]
    /\ allSitesData = [p \in Params |-> None]
    /\ allDygraphData = [k \in Keys |-> None]
    /\ allDygraph = [p \in Params |-> NoChart]
    /\ trouble = "none"

----------------------------------------------------------------------------
\* Mutant: the options of before are not removed.
AddSitesDataSelection(S) ==
    /\ listed' = listed \cup S
    /\ picked' = {}

(***************************************************************************)
(* showSitesDataSelection: the options are removed and made anew, none of  *)
(* them selected.                                                          *)
(***************************************************************************)
ShowSitesDataSelection(S) ==
    /\ listed' = S
    /\ picked' = {}

(***************************************************************************)
(* Both views of the sites asked for as those of q.  The markers that are  *)
(* taken off the map close their popups.                                   *)
(***************************************************************************)
ShowSitesData(key, q) ==
    /\ ShowSitesDataOnMap(key, SitesOf[q])
    /\ popup' = None
    /\ ShowSitesDataSelection(SitesOf[q])

\* Mutant: the sites are asked for whether they are at hand or not.
ShowSitesAfresh(p) ==
    /\ GetJSON("sites", p, {})
    /\ UNCHANGED <<mapVars, listed, picked, popup>>

(***************************************************************************)
(* showSites, for a parameter that has just been selected.                 *)
(***************************************************************************)
ShowSites(p) ==
    \/ /\ allSitesData[p] # None
       /\ ShowSitesData(p, allSitesData[p])
       /\ UNCHANGED xhr
    \/ /\ allSitesData[p] = None
       /\ GetJSON("sites", p, {})
       /\ UNCHANGED <<mapVars, listed, picked, popup>>

\* Mutant: the sites are shown before the new parameter is set.
ChangeParamLate(p) ==
    /\ p \in offered \ {selectedParam}
    /\ selectedParam' = p
    /\ ShowSites(selectedParam)
    /\ trouble' = IF Out # {} THEN "hurried" ELSE trouble
    /\ UNCHANGED <<offered, chartButton, allSitesData, allDygraphData,
                   allDygraph>>

(***************************************************************************)
(* The user chooses another parameter.                                     *)
(***************************************************************************)
ChangeParam(p) ==
    /\ p \in offered \ {selectedParam}
    /\ selectedParam' = p
    /\ ShowSites(p)
    /\ trouble' = IF Out # {} THEN "hurried" ELSE trouble
    /\ UNCHANGED <<offered, chartButton, allSitesData, allDygraphData,
                   allDygraph>>

\* Mutant: the value of the list is taken for a site.
ShowSitesPopup(S) == popup' = S /\ UNCHANGED mapVars

(***************************************************************************)
(* The user changes what is selected in the list of sites.  showSitePopup  *)
(* gets the value of the whole list: it knows a marker by that name only   *)
(* when a single site is selected.  Leaflet pans the map if the popup does *)
(* not fit in it, and how far depends on the size of the popup: it is left *)
(* alone or moved to any of Views.                                         *)
(***************************************************************************)
ShowSitePopup(S) ==
    IF \E s \in allSiteMarkers : S = {s}
    THEN /\ popup' \in S
         /\ UNCHANGED mapVars \/ \E v \in Views : MoveMap(v)
    ELSE UNCHANGED <<popup, mapVars>>

ChangeSites(S) ==
    /\ S \in Picks \ {picked}
    /\ S \subseteq listed
    /\ picked' = S
    /\ chartButton' = TRUE
    /\ ShowSitePopup(S)
    /\ UNCHANGED <<offered, selectedParam, listed, xhr, allSitesData,
                   allDygraphData, allDygraph, trouble>>

----------------------------------------------------------------------------
(***************************************************************************)
(* The title is the name of the parameter that is selected now.            *)
(***************************************************************************)
GetDygraphChartOpts(codes) == [title |-> selectedParam, labels |-> codes]

\* Mutant: charts of other parameters are not destroyed.
DgChartsKept == allDygraph

ClearDgCharts == [p \in Params |-> NoChart]

(***************************************************************************)
(* /observation_results has rows when one of the sites has observations of *)
(* the parameter, and /site lists the sites that have.                     *)
(***************************************************************************)
HasRows(p, S) == S \cap SitesOf[p] # {}

MakeDygraphPlot(p, S, key, codes) ==
    LET opts == GetDygraphChartOpts(codes)
    IN  allDygraph' =
            IF HasRows(p, S)
            THEN [ClearDgCharts EXCEPT ![key] =
                     [param |-> p, sites |-> S,
                      title |-> opts.title, labels |-> opts.labels]]
            ELSE ClearDgCharts

\* Mutant: the results are kept by their sites only.
ProcessPlotDataBySites(p, S) ==
    /\ allDygraphData' = [k \in Keys |-> IF k[2] = S THEN p
                                         ELSE allDygraphData[k]]
    /\ MakeDygraphPlot(p, S, p, "sites")

(***************************************************************************)
(* processPlotData: the results of p are kept under the parameter selected *)
(* when they come, and drawn under their own.                              *)
(***************************************************************************)
ProcessPlotData(p, S) ==
    /\ allDygraphData' = [allDygraphData EXCEPT ![<<selectedParam, S>>] = p]
    /\ MakeDygraphPlot(p, S, p, "sites")

(***************************************************************************)
(* checkSelectedSites: the sites whose options are selected at the click.  *)
(* The networks it collects are for the static charts.                     *)
(***************************************************************************)
CheckSelectedSites == picked

(***************************************************************************)
(* Without a site selected nothing is asked for.                           *)
(***************************************************************************)
QueryChartResults(selectedSites) ==
    /\ selectedSites # {}
    /\ GetJSON("results", selectedParam, selectedSites)

(***************************************************************************)
(* Results that are at hand are drawn with an argument too many: the       *)
(* parameter stands where the sites should.                                *)
(***************************************************************************)
MakeDgChart(selectedSites) ==
    LET cached == allDygraphData[<<selectedParam, selectedSites>>]
    IN  \/ /\ cached # None
           /\ MakeDygraphPlot(cached, selectedSites, selectedParam, "param")
           /\ UNCHANGED xhr
        \/ /\ cached = None
           /\ QueryChartResults(selectedSites)
           /\ UNCHANGED allDygraph

(***************************************************************************)
(* The user clicks on Show Charts.                                         *)
(***************************************************************************)
ClickChart ==
    /\ chartButton
    /\ MakeDgChart(CheckSelectedSites)
    /\ trouble' = IF Out # {} THEN "hurried" ELSE trouble
    /\ UNCHANGED <<mapVars, offered, selectedParam, listed, picked, chartButton,
                   popup, allSitesData, allDygraphData>>

----------------------------------------------------------------------------
(***************************************************************************)
(* The answer to /type: the options are made and the first one, in order   *)
(* of name, gets a change event.                                           *)
(***************************************************************************)
AnswerTypes(x) ==
    /\ xhr[x].kind = "types"
    /\ offered' = Params
    /\ selectedParam' = FirstParam
    /\ xhr' = [xhr EXCEPT ![x] = [kind |-> "sites", param |-> FirstParam,
                                  sites |-> {}]]
    /\ UNCHANGED <<mapVars, listed, picked, chartButton, popup, allSitesData,
                   allDygraphData, allDygraph, trouble>>

(***************************************************************************)
(* The answer to /site: kept and shown as that of the parameter selected   *)
(* when it comes.                                                          *)
(***************************************************************************)
AnswerSites(x) ==
    /\ xhr[x].kind = "sites"
    /\ End(x)
    /\ allSitesData' = [allSitesData EXCEPT ![selectedParam] = xhr[x].param]
    /\ ShowSitesData(selectedParam, xhr[x].param)
    /\ UNCHANGED <<offered, selectedParam, chartButton, allDygraphData,
                   allDygraph, trouble>>

(***************************************************************************)
(* The answer to /observation_results.                                     *)
(***************************************************************************)
AnswerResults(x) ==
    /\ xhr[x].kind = "results"
    /\ End(x)
    /\ ProcessPlotData(xhr[x].param, xhr[x].sites)
    /\ UNCHANGED <<mapVars, offered, selectedParam, listed, picked, chartButton,
                   popup, allSitesData, trouble>>

(***************************************************************************)
(* A request that fails ends without a callback.                           *)
(***************************************************************************)
Fail(x) ==
    /\ xhr[x] # Idle
    /\ End(x)
    /\ trouble' = IF trouble = "none" THEN "lost" ELSE trouble
    /\ UNCHANGED <<mapVars, offered, selectedParam, listed, picked, chartButton,
                   popup, allSitesData, allDygraphData, allDygraph>>

DragMap(v) == MoveMap(v) /\ UNCHANGED pageVars

Ends(x) == Fail(x) \/ AnswerTypes(x) \/ AnswerSites(x) \/ AnswerResults(x)

Next ==
    \/ \E p \in Params : ChangeParam(p)
    \/ \E S \in Picks : ChangeSites(S)
    \/ ClickChart
    \/ \E v \in Views : DragMap(v)
    \/ \E x \in Slots : Ends(x)

Spec == InitChartParams /\ [][Next]_vars

----------------------------------------------------------------------------
TypeOK ==
    /\ MapTypeOK
    /\ offered \in {{}, Params}
    /\ selectedParam \in ParamOrNone
    /\ listed \in SUBSET Sites
    /\ picked \in SUBSET Sites
    /\ chartButton \in BOOLEAN
    /\ popup \in Sites \cup {None}
    /\ xhr \in [Slots -> Request]
    /\ allSitesData \in [Params -> ParamOrNone]
    /\ allDygraphData \in [Keys -> ParamOrNone]
    /\ allDygraph \in [Params -> Chart]
    /\ trouble \in Troubles

(***************************************************************************)
(* Whatever the order of the answers, the list and the map show the same   *)
(* one of them, all of it, and an open popup belongs to a marker on the    *)
(* map: no handler leaves a marker, an option or a popup of another        *)
(* parameter behind.                                                       *)
(***************************************************************************)
ListIsMap ==
    /\ listed = UNION {layers[p].sites : p \in Params}
    /\ listed \in {SitesOf[p] : p \in Params} \cup {{}}
    /\ popup \in listed \cup {None}
    /\ picked \subseteq listed

(***************************************************************************)
(* There is one graphdiv: however charts of different parameters follow    *)
(* upon each other, late answers included, one of them at most is live.    *)
(***************************************************************************)
OneChart ==
    \A p, q \in Params :
        allDygraph[p] # NoChart /\ allDygraph[q] # NoChart => p = q

(***************************************************************************)
(* "sites data by param": what is kept as the sites of a parameter was     *)
(* asked for as the sites of that parameter.                               *)
(***************************************************************************)
SitesDataByParam == \A p \in Params : allSitesData[p] \in {p, None}

(***************************************************************************)
(* "sites data by param", "results data by param", "by code_param": for a  *)
(* user who waits for each answer before asking again, requests that fail  *)
(* included, what is kept for a parameter is that parameter's, and a chart *)
(* has the title of the parameter it draws.                                *)
(***************************************************************************)
DataByParam ==
    trouble # "hurried" =>
        /\ SitesDataByParam
        /\ \A k \in Keys : allDygraphData[k] \in {k[1], None}
        /\ \A p \in Params : allDygraph[p] # NoChart =>
               allDygraph[p].param = p /\ allDygraph[p].title = p

ListsSelected ==
    \E p \in Params : selectedParam = p /\ listed = SitesOf[p]

(***************************************************************************)
(* "select a parameter to show sites on the map and listbox": when such a  *)
(* user has lost no answer and waits for none, the sites listed are those  *)
(* of the parameter selected.  A chart then has rows to draw, so that a    *)
(* click on Show Charts cannot end with an empty page.                     *)
(***************************************************************************)
ShowsSelected ==
    trouble = "none" =>
        /\ \/ selectedParam = None
           \/ \E x \in Slots : xhr[x].kind = "sites"
           \/ ListsSelected
        /\ \A x \in Slots : xhr[x].kind = "results" =>
               HasRows(xhr[x].param, xhr[x].sites)
        /\ \A k \in Keys : allDygraphData[k] # None =>
               HasRows(allDygraphData[k], k[2])

(***************************************************************************)
(* Such a user's page asks the server once for what it gets: no request is *)
(* out for sites or results that are already kept.                         *)
(***************************************************************************)
AskedOnce ==
    trouble # "hurried" =>
        \A x \in Slots :
            /\ xhr[x].kind = "sites" => allSitesData[xhr[x].param] = None
            /\ xhr[x].kind = "results" =>
                   allDygraphData[<<xhr[x].param, xhr[x].sites>>] = None

=============================================================================
