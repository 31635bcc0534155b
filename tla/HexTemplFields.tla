--------------------------- MODULE HexTemplFields ---------------------------
(***************************************************************************)
(* The fields of a template and how a template's file becomes them         *)
(* (IHexTemplates::LoadFromFile, CHexDlgTemplMgr::JSONParseFields).  A     *)
(* JSON object is a record, and a member is there if it is in the record's *)
(* domain.  A field is a record of its offset in the template, its size,   *)
(* its type, its byte order and the fields nested in it.                   *)
(***************************************************************************)
EXTENDS Integers, Sequences, SequencesExt

\* umapTypeToSize.
TypeSize ==
  [bool |-> 1, int8 |-> 1, uint8 |-> 1, int16 |-> 2, uint16 |-> 2, int32 |-> 4, uint32 |-> 4,
   float |-> 4, int64 |-> 8, uint64 |-> 8, double |-> 8, time32_t |-> 4, time64_t |-> 8,
   FILETIME |-> 8, SYSTEMTIME |-> 16, GUID |-> 16]

NotParsed == [ok |-> FALSE, fields |-> <<>>, offset |-> 0]

RECURSIVE lmbTotalSize(_)
lmbTotalSize(fields) ==
  FoldLeft(LAMBDA total, f :
             total + (IF f.nested = <<>> THEN f.size ELSE lmbTotalSize(f.nested)), 0, fields)

\* The fields without nested ones, from the first to the last.
RECURSIVE Leaves(_)
Leaves(fields) ==
  FlattenSeq([i \in DOMAIN fields |->
    IF fields[i].nested = <<>> THEN <<fields[i]>> ELSE Leaves(fields[i].nested)])

\* The byte order is little endian without the member, and only a wrong member
\* gives the one of the parent.
JSONEndianness(object, default) ==
  IF "endianness" \notin DOMAIN object THEN FALSE
  ELSE IF object.endianness \in {"big", "little"} THEN object.endianness = "big"
  ELSE default

\* One more field copied behind the others, its nested ones copied already.
WithCopy(acc, f, inner) ==
  [fields |-> Append(acc.fields, [f EXCEPT !.offset = acc.offset, !.nested = inner.fields]),
   offset |-> IF f.nested = <<>> THEN acc.offset + f.size ELSE inner.offset]

\* lmbCopyCustomType: the fields of a custom type, from an offset on.
RECURSIVE CopyCustomType(_, _)
CopyCustomType(fields, offset) ==
  FoldLeft(LAMBDA acc, f : WithCopy(acc, f, CopyCustomType(f.nested, acc.offset)),
           [fields |-> <<>>, offset |-> offset], fields)

\* Mutant: every element of an array has the offset of the first.
RepeatedInPlace(one, count) ==
  [one EXCEPT !.size = count * one.size, !.nested = [i \in 1..count |-> one]]

\* A field made of count copies of one, which is at "offset".
Repeated(one, count) ==
  [one EXCEPT !.size = count * one.size,
              !.nested = [i \in 1..count |->
                 [one EXCEPT !.offset = one.offset + (i - 1) * one.size,
                             !.nested = CopyCustomType(one.nested,
                                          one.offset + (i - 1) * one.size).fields]]]

\* The field of "type" or "size"; types is a sequence of records of a custom
\* type's name and its fields.
DataField(object, offset, big, types) ==
  LET custom == SelectInSeq(types, LAMBDA t : t.name = object.type)
      Plain(type, size, nested) ==
        [offset |-> offset, size |-> size, type |-> type, big |-> big, nested |-> nested]
      OfFields(copied) == Plain("type_custom", lmbTotalSize(copied), copied)
  IN  CASE "type" \notin DOMAIN object -> Plain("custom_size", object.size, <<>>)
        [] "type" \in DOMAIN object /\ object.type \in DOMAIN TypeSize ->
             Plain(object.type, TypeSize[object.type], <<>>)
        [] OTHER -> OfFields(CopyCustomType(types[custom].fields, offset).fields)

InArray(object, one) ==
  IF "array" \in DOMAIN object /\ object.array > 1 THEN Repeated(one, object.array) ELSE one

IsParsable(object, types) ==
  IF "type" \in DOMAIN object
  THEN object.type \in DOMAIN TypeSize \cup {t.name : t \in ToSet(types)}
  ELSE "size" \in DOMAIN object /\ object.size >= 1

\* One more field, which holds those of "Fields", or a field of its own.
WithGroup(acc, big, inner) ==
  IF ~inner.ok THEN NotParsed
  ELSE [inner EXCEPT !.fields =
          Append(acc.fields, [offset |-> acc.offset, size |-> lmbTotalSize(inner.fields),
                              type |-> "type_custom", big |-> big, nested |-> inner.fields])]

WithField(acc, field) ==
  [acc EXCEPT !.fields = Append(acc.fields, field), !.offset = acc.offset + field.size]

\* The members of "Fields", one after the other, until one is not as it should be.
RECURSIVE JSONParseFields(_, _, _, _)
JSONParseFields(objects, offset, default, types) ==
  LET Parsed(acc, object, big) ==
        IF "Fields" \in DOMAIN object
        THEN WithGroup(acc, big, JSONParseFields(object.Fields, acc.offset, big, types))
        ELSE IF IsParsable(object, types)
        THEN WithField(acc, InArray(object, DataField(object, acc.offset, big, types)))
        ELSE NotParsed
  IN  FoldLeft(LAMBDA acc, object : IF acc.ok
                                    THEN Parsed(acc, object, JSONEndianness(object, default))
                                    ELSE acc,
               [ok |-> TRUE, fields |-> <<>>, offset |-> offset], objects)

\* A custom type can use those that precede it.
WithType(acc, name, parsed) ==
  [ok |-> acc.ok /\ parsed.ok,
   types |-> Append(acc.types, [name |-> name, fields |-> parsed.fields])]

CustomTypes(objects) ==
  FoldLeft(LAMBDA acc, t :
             WithType(acc, t.TypeName,
                      JSONParseFields(t.Fields, 0, JSONEndianness(t, FALSE), acc.types)),
           [ok |-> TRUE, types |-> <<>>], objects)

NoTemplate == [fields |-> <<>>, size |-> 0]

LoadFromFile(file) ==
  LET Made(data) == IF ~data.ok THEN NoTemplate
                    ELSE [fields |-> data.fields,
                          size |-> FoldLeft(LAMBDA total, f : total + f.size, 0, data.fields)]
      WithTypes(custom) ==
        IF ~custom.ok THEN NoTemplate
        ELSE Made(JSONParseFields(file.Data.Fields, 0, JSONEndianness(file.Data, FALSE),
                                  custom.types))
  IN  WithTypes(CustomTypes(file.CustomTypes))

\* The fields nested in the one at a path of indexes, of the template for <<>>.
RECURSIVE NestedAt(_, _)
NestedAt(fields, path) ==
  IF path = <<>> THEN fields ELSE NestedAt(fields[Head(path)].nested, Tail(path))

FieldAt(fields, path) == NestedAt(fields, Front(path))[Last(path)]

\* The paths of all fields.
RECURSIVE Paths(_)
Paths(fields) ==
  UNION {{<<i>>} \cup {<<i>> \o p : p \in Paths(fields[i].nested)} : i \in DOMAIN fields}

\* Every field begins where the one before it ends, and a field with nested ones
\* is as long as they are: no byte of the template belongs to two leaves or to none.
RECURSIVE Tiles(_, _)
Tiles(fields, offset) ==
  FoldLeft(LAMBDA acc, f :
             [ok |-> acc.ok /\ f.offset = acc.at /\ f.size > 0
                     /\ (f.nested # <<>> => Tiles(f.nested, f.offset).ok
                                            /\ Tiles(f.nested, f.offset).at = f.offset + f.size),
              at |-> acc.at + f.size],
           [ok |-> TRUE, at |-> offset], fields)
=============================================================================
