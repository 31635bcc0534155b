------------------------------ MODULE HexTempl ------------------------------
(***************************************************************************)
(* The template manager (CHexDlgTemplMgr.cpp): the templates loaded, where *)
(* they are applied, and the dialog that shows them: a combo box of the    *)
(* templates, a tree whose roots are the applied ones and whose other      *)
(* nodes are fields, and a list of the fields of one vector.  A node of    *)
(* the tree is an applied template's id and a path of field indexes, a     *)
(* vector of fields a template's id and a path, and the null pointer <<>>. *)
(***************************************************************************)
EXTENDS HexTemplFields

CONSTANTS
  Files,      \* bound: the template files a user or a client loads, a sequence
  Chosen,    \* bound: the files a user chooses at a time, sequences of indexes of Files
  Sizes,      \* bound: the sizes of the data a client sets
  Offsets,    \* bound: the offsets templates are applied at
  MaxTempl,   \* bound: templates loaded at a time
  MaxApplied, \* bound: templates applied at a time
  MaxId       \* bound: the largest identifier

Null == <<>>

VARIABLES
  templates, \* m_vecTemplates: records of an id and the file it comes from
  applied,   \* m_vecTemplatesAppl: records of an id, the template's id and the offset
  dialog,    \* the dialog's window is there
  combo,     \* the template ids in the combo box, which sorts them by name
  comboSel,  \* the one selected, or 0
  buttons,   \* Apply, Unload and the offset are enabled
  roots,     \* the applied ids at the roots of the tree
  treeSel,   \* the tree's selected node
  current,   \* m_pAppliedCurr, an applied id or 0
  fieldsCurr,\* m_pVecFieldsCurr
  parent,    \* m_hTreeCurrParent
  rows,      \* the number of items of the list
  rowSel,    \* the list's selected items
  staticText,\* UpdateStaticText: the offset and size shown of an applied template, or <<>>
  hglSel,    \* IsHglSel(): fields are highlighted as the control's selection
  hexSel,    \* the selection SetHexSelByField has set, <<offset, size>> or <<>>
  dataSize

listVars == <<current, fieldsCurr, parent, rows, rowSel, staticText>>
treeVars == <<roots, treeSel>>
comboVars == <<combo, comboSel, buttons>>
controlVars == <<hglSel, hexSel, dataSize>>
templVars == <<templates, applied, dialog, comboVars, treeVars, listVars, controlVars>>

IsDataSet == dataSize > 0

-----------------------------------------------------------------------------
(* Templates, applied templates, nodes and vectors of fields               *)

\* What the files give, and the nodes a tree shows of it.
Loaded == [file \in DOMAIN Files |-> LoadFromFile(Files[file])]
NodePaths == [file \in DOMAIN Files |-> {<<>>} \cup Paths(Loaded[file].fields)]
AllLeaves == [file \in DOMAIN Files |-> Leaves(Loaded[file].fields)]

TemplateIds == {t.id : t \in ToSet(templates)}
AppliedIds == {a.id : a \in ToSet(applied)}
FileOf(id) == (CHOOSE t \in ToSet(templates) : t.id = id).file
GetTemplate(id) == Loaded[FileOf(id)]
GetApplied(id) == CHOOSE a \in ToSet(applied) : a.id = id

\* The next of a sequence of records with ids.
NewId(seq) == FoldLeft(LAMBDA n, r : IF r.id >= n THEN r.id + 1 ELSE n, 1, seq)

Nodes == UNION {{<<id>> \o path : path \in NodePaths[FileOf(GetApplied(id).templ)]}
                : id \in ToSet(roots)}
Field(node) == FieldAt(GetTemplate(GetApplied(Head(node)).templ).fields, Tail(node))
FieldsOf(vector) == NestedAt(GetTemplate(Head(vector)).fields, Tail(vector))

\* The last applied template at an offset, its index or 0.
AppliedAt(offset) ==
  SelectLastInSeq(applied, LAMBDA a :
    offset \in a.offset..a.offset + GetTemplate(a.templ).size - 1)

\* Mutant: a field also has the byte behind it.
OneByteMore(offset) ==
  LET a == applied[AppliedAt(offset)]
      leaves == AllLeaves[FileOf(a.templ)]
      at == SelectInSeq(leaves, LAMBDA f : offset <= a.offset + f.offset + f.size)
  IN  IF AppliedAt(offset) = 0 \/ at = 0 THEN Null ELSE <<a.offset + leaves[at].offset, leaves[at].size>>

\* The span of the field under an offset: the first that ends behind it.
HitTest(offset) ==
  LET a == applied[AppliedAt(offset)]
      leaves == AllLeaves[FileOf(a.templ)]
      at == SelectInSeq(leaves, LAMBDA f : offset < a.offset + f.offset + f.size)
  IN  IF AppliedAt(offset) = 0 \/ at = 0 THEN Null ELSE <<a.offset + leaves[at].offset, leaves[at].size>>

-----------------------------------------------------------------------------
(* The dialog's controls                                                   *)

SetDlgButtonsState(all) == buttons' = (all # <<>>)

\* UpdateStaticText: nothing is shown without data.
StaticText(id) ==
  IF id # 0 /\ IsDataSet
  THEN <<GetApplied(id).offset, GetTemplate(GetApplied(id).templ).size>> ELSE Null

NoCurrent ==
  /\ current' = 0 /\ fieldsCurr' = Null /\ parent' = Null
  /\ rows' = 0 /\ rowSel' = {}

\* If the list shows the fields of one of these applied ids, it is emptied.
ClearList(ids) ==
  IF current \in ids THEN NoCurrent /\ staticText' = StaticText(0) ELSE UNCHANGED listVars

\* The tree without these roots.  When the selected node goes, the tree selects
\* another root by itself.
DeleteRoots(ids) ==
  /\ roots' = SelectSeq(roots, LAMBDA id : id \notin ids)
  /\ IF treeSel # Null /\ Head(treeSel) \in ids
     THEN IF roots' = <<>> THEN treeSel' = Null
          ELSE \E id \in ToSet(roots') : treeSel' = <<id>>
     ELSE UNCHANGED treeSel

\* SetHexSelByField, of the field at a node; the applied template is the current one.
SetHexSelByField(node, id) ==
  hexSel' = IF hglSel /\ IsDataSet /\ Len(node) > 1 /\ id # 0
            THEN <<GetApplied(id).offset + Field(node).offset, Field(node).size>> ELSE hexSel

\* OnTemplateLoadUnload(id, true).
ComboAdd(id) ==
  IF dialog
  THEN combo' = combo \cup {id} /\ comboSel' = id /\ SetDlgButtonsState(<<id>>)
  ELSE UNCHANGED comboVars

\* OnTemplateLoadUnload(id, false) in the combo box; the first by name is selected.
ComboRemove(id) ==
  /\ combo' = combo \ {id}
  /\ comboSel' \in (IF id \notin combo THEN {comboSel} ELSE IF combo' = {} THEN {0} ELSE combo')

-----------------------------------------------------------------------------
(* Operations of IHexTemplates, of the dialog's buttons and of the control *)

\* LoadTemplate, and AddTemplate of a template a client loaded.
LoadTemplate(file) ==
  LET id == NewId(templates)
  IN  /\ Len(templates) < MaxTempl /\ id <= MaxId
      /\ Loaded[file] # NoTemplate
      /\ templates' = Append(templates, [id |-> id, file |-> file])
      /\ ComboAdd(id)
      /\ UNCHANGED <<applied, dialog, treeVars, listVars, controlVars>>

\* The tree gets a root, if the dialog is there.
ApplyTemplate(offset, id) ==
  LET new == NewId(applied)
  IN  /\ id \in TemplateIds
      /\ Len(applied) < MaxApplied /\ new <= MaxId
      /\ applied' = Append(applied, [id |-> new, templ |-> id, offset |-> offset])
      /\ roots' = IF dialog THEN Append(roots, new) ELSE roots
      /\ UNCHANGED <<templates, dialog, comboVars, treeSel, listVars, controlVars>>

\* OnBnLoadTemplate: of the files chosen, one that cannot be loaded only says so.
AfterLoading(loaded, file) ==
  IF Loaded[file] = NoTemplate THEN loaded
  ELSE Append(loaded, [id |-> NewId(loaded), file |-> file])

OnBnLoadTemplate(files) ==
  LET all == FoldLeft(AfterLoading, templates, files)
      new == {t.id : t \in ToSet(all)} \ TemplateIds
  IN  /\ dialog /\ new # {}
      /\ Len(all) <= MaxTempl /\ new \subseteq 1..MaxId
      /\ templates' = all
      /\ combo' = combo \cup new /\ comboSel' = Last(all).id /\ SetDlgButtonsState(all)
      /\ UNCHANGED <<applied, dialog, treeVars, listVars, controlVars>>

\* CMD_TEMPL_APPLYCURR, at the caret.
ApplyCurr(offset) ==
  /\ dialog /\ IsDataSet
  /\ comboSel # 0
  /\ ApplyTemplate(offset, comboSel)

\* The button, and Enter where the offset is typed; what is typed may be no number.
OnBnApply(offset) ==
  /\ buttons /\ IsDataSet
  /\ comboSel # 0
  /\ ApplyTemplate(offset, comboSel)

\* The text is updated before the pointers are reset.
DisapplyAll ==
  /\ staticText' = StaticText(current)
  /\ NoCurrent
  /\ applied' = <<>>
  /\ roots' = <<>> /\ treeSel' = Null
  /\ UNCHANGED <<templates, dialog, comboVars, controlVars>>

\* DisapplyByID, and the end of DisapplyByOffset.
DisapplyByID(id) ==
  /\ id \in AppliedIds
  /\ ClearList({id} \cap ToSet(roots))
  /\ DeleteRoots({id})
  /\ applied' = SelectSeq(applied, LAMBDA a : a.id # id)
  /\ UNCHANGED <<templates, dialog, comboVars, controlVars>>

\* CMD_TEMPL_DISAPPLY at the caret, or the client.
DisapplyByOffset(offset) ==
  /\ AppliedAt(offset) # 0
  /\ DisapplyByID(applied[AppliedAt(offset)].id)

\* Mutant: the applied ones stay.
UnloadOnly(id) ==
  /\ IF dialog
     THEN ClearList(ToSet(roots)) /\ UNCHANGED treeVars
          /\ ComboRemove(id)
     ELSE UNCHANGED <<treeVars, listVars, combo, comboSel>>
  /\ templates' = SelectSeq(templates, LAMBDA t : t.id # id)
  /\ UNCHANGED <<applied, buttons, dialog, controlVars>>

\* The list is emptied whichever of the applied templates it shows.
UnloadTemplate(id) ==
  LET ids == {a.id : a \in {b \in ToSet(applied) : b.templ = id}}
  IN  /\ IF dialog
         THEN ClearList(ToSet(roots)) /\ DeleteRoots(ids) /\ ComboRemove(id)
         ELSE UNCHANGED <<treeVars, listVars, combo, comboSel>>
      /\ applied' = SelectSeq(applied, LAMBDA a : a.templ # id)
      /\ templates' = SelectSeq(templates, LAMBDA t : t.id # id)
      /\ IF dialog THEN SetDlgButtonsState(templates') ELSE UNCHANGED buttons
      /\ UNCHANGED <<dialog, controlVars>>

OnBnUnloadTemplate == dialog /\ comboSel # 0 /\ UnloadTemplate(comboSel)

\* The buttons are set before the templates are gone.
UnloadAll ==
  /\ templates' = <<>>
  /\ applied' = <<>>
  /\ staticText' = StaticText(current)
  /\ NoCurrent
  /\ roots' = <<>> /\ treeSel' = Null
  /\ combo' = {} /\ comboSel' = 0
  /\ UNCHANGED <<buttons, dialog, controlVars>>

-----------------------------------------------------------------------------
(* The dialog                                                              *)

\* OnInitDialog: the templates go into the combo box, the applied ones not into the tree.
CreateDlg ==
  /\ ~dialog
  /\ dialog' = TRUE
  /\ combo' = TemplateIds
  /\ comboSel' = IF templates = <<>> THEN 0 ELSE Last(templates).id
  /\ SetDlgButtonsState(templates)
  /\ hglSel' = FALSE
  /\ UNCHANGED <<templates, applied, treeVars, listVars, hexSel, dataSize>>

\* The control's window goes, and with it the dialog's; the templates stay, loaded
\* and applied.  The control can be created again.
OnDestroy ==
  /\ dialog
  /\ dialog' = FALSE
  /\ NoCurrent /\ staticText' = Null
  /\ roots' = <<>> /\ treeSel' = Null
  /\ combo' = {} /\ comboSel' = 0 /\ buttons' = FALSE
  /\ hglSel' = FALSE
  /\ dataSize' = 0 /\ hexSel' = Null
  /\ UNCHANGED <<templates, applied>>

SelectCombo(id) ==
  /\ id \in combo
  /\ comboSel' = id
  /\ UNCHANGED <<templates, applied, dialog, combo, buttons, treeVars, listVars, controlVars>>

\* Mutant: a click on a leaf shows the fields of the template.
ParentIsRoot(node) ==
  IF Len(node) = 1 \/ Field(node).nested # <<>> THEN node ELSE <<Head(node)>>

\* The node whose children the list shows after a click: the node, or its
\* parent if it has no children.
ShownBy(node) == IF Len(node) = 1 \/ Field(node).nested # <<>> THEN node ELSE Front(node)

\* OnNotifyTreeItemChanged, of a click or a key.
ClickTree(node) ==
  LET vector == <<GetApplied(Head(node)).templ>> \o Tail(ShownBy(node))
  IN  /\ node \in Nodes /\ node # treeSel
      /\ treeSel' = node
      /\ current' = Head(node)
      /\ parent' = ShownBy(node)
      /\ IF vector # fieldsCurr \/ Head(node) # current
         THEN fieldsCurr' = vector /\ rows' = Len(FieldsOf(vector))
         ELSE UNCHANGED <<fieldsCurr, rows>>
      /\ rowSel' = IF ShownBy(node) = node THEN {} ELSE {Last(node)}
      /\ staticText' = StaticText(Head(node))
      /\ SetHexSelByField(node, Head(node))
      /\ UNCHANGED <<templates, applied, dialog, comboVars, roots, hglSel, dataSize>>

\* SelectItem: the notification says TVC_UNKNOWN, and only the field is highlighted.
SelectTreeItem(node) ==
  /\ treeSel' = node
  /\ IF node # treeSel THEN SetHexSelByField(node, current) ELSE UNCHANGED hexSel

\* OnNotifyTreeRClick.
RightClickTree(node) ==
  /\ node \in Nodes
  /\ SelectTreeItem(node)
  /\ UNCHANGED <<templates, applied, dialog, comboVars, roots, listVars, hglSel, dataSize>>

\* "Disapply template" in the tree's menu, of the selected node.
MenuDisapply == treeSel # Null /\ DisapplyByID(Head(treeSel))

TreeItemFromListItem(row) == parent \o <<row>>

\* OnNotifyListItemChanged.
ClickList(row) ==
  /\ row \in 1..rows /\ rowSel # {row}
  /\ rowSel' = {row}
  /\ SelectTreeItem(TreeItemFromListItem(row))
  /\ UNCHANGED <<templates, applied, dialog, comboVars, roots, current, fieldsCurr, parent,
                 rows, staticText, hglSel, dataSize>>

\* OnNotifyListDblClick, and OnNotifyListEnterPressed.
OpenListItem(row) ==
  /\ rowSel = {row}
  /\ FieldsOf(fieldsCurr)[row].nested # <<>>
  /\ fieldsCurr' = fieldsCurr \o <<row>>
  /\ parent' = TreeItemFromListItem(row)
  /\ rows' = Len(FieldsOf(fieldsCurr)[row].nested)
  /\ rowSel' = {}
  /\ UNCHANGED <<templates, applied, dialog, comboVars, treeVars, current, staticText,
                 controlVars>>

CheckHglSel ==
  /\ dialog
  /\ hglSel' = ~hglSel
  /\ UNCHANGED <<templates, applied, dialog, comboVars, treeVars, listVars, hexSel, dataSize>>

\* SetData, of which ClearData is a part: the templates stay applied.
SetData(size) ==
  /\ dataSize' = size
  /\ hexSel' = Null
  /\ UNCHANGED <<templates, applied, dialog, comboVars, treeVars, listVars, hglSel>>

-----------------------------------------------------------------------------

Init ==
  /\ templates = <<>> /\ applied = <<>>
  /\ dialog = FALSE
  /\ combo = {} /\ comboSel = 0 /\ buttons = FALSE
  /\ roots = <<>> /\ treeSel = Null
  /\ current = 0 /\ fieldsCurr = Null /\ parent = Null /\ rows = 0 /\ rowSel = {}
  /\ staticText = Null /\ hglSel = FALSE /\ hexSel = Null
  /\ dataSize \in Sizes

Next ==
  \/ \E file \in DOMAIN Files : LoadTemplate(file)
  \/ \E files \in Chosen : OnBnLoadTemplate(files)
  \/ \E offset \in Offsets, id \in 1..MaxId : ApplyTemplate(offset, id)
  \/ \E offset \in Offsets : ApplyCurr(offset) \/ OnBnApply(offset) \/ DisapplyByOffset(offset)
  \/ \E id \in 1..MaxId : DisapplyByID(id) \/ UnloadTemplate(id)
  \/ DisapplyAll \/ UnloadAll \/ OnBnUnloadTemplate \/ CreateDlg \/ OnDestroy \/ MenuDisapply
  \/ \E id \in combo : SelectCombo(id)
  \/ \E node \in Nodes : ClickTree(node) \/ RightClickTree(node)
  \/ \E row \in 1..rows : ClickList(row) \/ OpenListItem(row)
  \/ CheckHglSel
  \/ \E size \in Sizes : SetData(size)

Spec == Init /\ [][Next]_templVars

-----------------------------------------------------------------------------
(* Properties                                                              *)

\* Every pointer and index is null or in its range.
TypeOK ==
  /\ dialog \in BOOLEAN /\ buttons \in BOOLEAN /\ hglSel \in BOOLEAN
  /\ dataSize \in Nat /\ current \in 0..MaxId
  /\ comboSel \in (IF combo = {} THEN {0} ELSE combo)
  /\ treeSel \in Nodes \cup {Null}
  /\ rowSel \subseteq 1..rows
  /\ \A i, j \in DOMAIN applied : i # j => applied[i].id # applied[j].id
  /\ \A i, j \in DOMAIN templates : i # j => templates[i].id # templates[j].id

\* Nothing the manager holds a raw pointer to is freed under it, whatever is
\* unloaded or disapplied from the dialog, a command or a client, in whatever
\* order (RemoveNodesWithTemplateID, RemoveNodeWithAppliedID, UnloadTemplate).
NothingDangles ==
  /\ \A a \in ToSet(applied) : a.templ \in TemplateIds
  /\ ToSet(roots) \subseteq AppliedIds
  /\ current \in AppliedIds \cup {0}
  /\ fieldsCurr # Null => Head(fieldsCurr) \in TemplateIds
  /\ combo = (IF dialog THEN TemplateIds ELSE {})

\* The list's rows are the children of the tree node TreeItemFromListItem counts
\* from, and the fields of m_pVecFieldsCurr, of the applied template at which
\* offsets are computed: the three pointers agree.
RowsAreChildren ==
  IF current = 0 THEN fieldsCurr = Null /\ parent = Null /\ rows = 0
  ELSE /\ parent \in Nodes
       /\ Head(parent) = current
       /\ fieldsCurr = <<GetApplied(current).templ>> \o Tail(parent)
       /\ rows = Len(FieldsOf(fieldsCurr))

\* While fields are shown, the text shows nothing but the offset and the size of
\* the applied template they are of.
TextOfCurrent ==
  current # 0 /\ staticText # Null =>
    staticText = <<GetApplied(current).offset, GetTemplate(GetApplied(current).templ).size>>

\* Every pointer of the manager and its dialog is to what there is, and they agree.
PointersAgree == TypeOK /\ NothingDangles /\ RowsAreChildren /\ TextOfCurrent

\* The row that becomes selected, by a click on it or on the tree, is the field
\* whose bytes are highlighted, where the template the list shows is applied
\* (OnNotifyTreeItemChanged, TreeItemFromListItem, SetHexSelByField).
PickedRowsHighlight ==
  \A row \in rowSel' \ rowSel : hexSel' # hexSel =>
    LET f == FieldsOf(fieldsCurr')[row]
    IN  hexSel' = <<GetApplied(current').offset + f.offset, f.size>>

\* The leaves of a loaded template share out its bytes, nested fields and arrays
\* of custom types too (JSONParseFields, lmbCopyCustomType).
LeavesTile ==
  \A t \in ToSet(templates) :
    LET tiles == Tiles(Loaded[t.file].fields, 0)
    IN  tiles.ok /\ tiles.at = Loaded[t.file].size

\* The field under an offset (for the tooltip and the colours of the dump) has
\* the offset's byte, there is one wherever a template is applied, and no leaf
\* of a template has another's byte.
HitFieldHasByte ==
  /\ LeavesTile
  /\ \A offset \in 0..dataSize - 1 :
       \A hit \in {HitTest(offset)} :
         IF AppliedAt(offset) = 0 THEN hit = Null
         ELSE hit # Null /\ offset \in hit[1]..hit[1] + hit[2] - 1

=============================================================================
