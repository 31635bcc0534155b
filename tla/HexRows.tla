------------------------------ MODULE HexRows ------------------------------
(***************************************************************************)
(* What the rows of the data interpreter make of bytes, and of what a user *)
(* enters (CHexDlgDataInterp.cpp: the ShowValue* and SetData* functions,   *)
(* with the dates and times of HexUtility.ixx).                            *)
(* A text is a sequence: <<>> is the empty text, NA the text "N/A", <<n>>  *)
(* a number, or a date and time as the number of milliseconds since 1601;  *)
(* longer ones are the fields of a structure.  A signed number and a       *)
(* floating-point one have the text of their bits.  Numbers wrap.          *)
(***************************************************************************)
EXTENDS Integers, SequencesExt

CONSTANTS
  HalfValues,   \* 16: the values of half a byte
  TicksPerMS,   \* g_uFTTicksPerMS
  TicksPerSec,  \* g_uFTTicksPerSec
  UnixEpoch,    \* g_ulFileTime1970: 1970 in ticks since 1601
  GuidOffset,   \* g_uFileTime1582OffsetDays, in ticks
  DosEpoch,     \* 1980, the first year of MS-DOS time, in ticks
  LastStamp     \* the last millisecond of the year 9999

ASSUME RowsAssumption ==
  /\ HalfValues \in Nat \ {0, 1}
  /\ TicksPerMS \in Nat \ {0}
  /\ TicksPerSec \in Nat \ {0}
  /\ {UnixEpoch, GuidOffset, DosEpoch, LastStamp} \subseteq Nat

ByteValues == HalfValues * HalfValues

\* How many numbers there are of a size in bytes: a power, multiplied out.
Values(size) ==
  LET product[n \in 0..size] == IF n = 0 THEN 1 ELSE ByteValues * product[n - 1]
  IN  product[size]

\* Least significant byte first.
Number(bytes) ==
  LET upTo[i \in 0..Len(bytes)] ==
        IF i = 0 THEN 0 ELSE upTo[i - 1] + bytes[i] * Values(i - 1)
  IN  upTo[Len(bytes)]

BytesOf(number, size) == [i \in 1..size |-> (number \div Values(i - 1)) % ByteValues]

IsNegative(number, size) == number >= Values(size) \div 2

\* ut::ByteSwap, if IsBigEndian().
Ordered(bytes, bigEndian) == IF bigEndian THEN Reverse(bytes) ELSE bytes

NumberAt(bytes, from, size, bigEndian) ==
  Number(Ordered(SubSeq(bytes, from, from + size - 1), bigEndian))

NoText == <<>>
NA == <<0, 0>>

-----------------------------------------------------------------------------
(* Dates and times.  A stamp is a number of milliseconds; a tick of a      *)
(* FILETIME is finer, and is lost in a text.                               *)

\* FileTimeToString: Windows refuses negative ticks, the code the year 10000.
StampText(ticks) ==
  LET stamp == ticks \div TicksPerMS
  IN  IF IsNegative(ticks, 8) \/ stamp > LastStamp THEN NA ELSE <<stamp>>

Ticks(text) == text[1] * TicksPerMS   \* StringToFileTime

\* Mutant: seconds from 1601.
NoEpoch(seconds, size) ==
  IF IsNegative(seconds, size) THEN NA ELSE StampText((seconds * TicksPerSec) % Values(8))

\* ShowValueTime32 and ShowValueTime64.
SecondsText(seconds, size) ==
  IF IsNegative(seconds, size) THEN NA
  ELSE StampText((UnixEpoch + seconds * TicksPerSec) % Values(8))

\* SetDataTime32 and SetDataTime64; refused: <<>>.
SecondsBytes(text, size) ==
  LET seconds == (Ticks(text) - UnixEpoch) \div TicksPerSec
  IN  IF \/ Ticks(text) < UnixEpoch
         \/ size = 4 /\ seconds >= Values(4) \div 2 - 1
      THEN <<>>
      ELSE BytesOf(seconds, size)

\* ShowValueJAVATIME adds the milliseconds before 1970 as well.
JavaText(millis) ==
  LET magnitude == IF IsNegative(millis, 8) THEN Values(8) - millis ELSE millis
  IN  StampText((UnixEpoch + magnitude * TicksPerMS) % Values(8))

\* SetDataJAVATIME: C++ division, towards zero.
JavaBytes(text) ==
  LET diff == Ticks(text) - UnixEpoch
      millis == IF diff >= 0 THEN diff \div TicksPerMS ELSE -((-diff) \div TicksPerMS)
  IN  BytesOf(millis % Values(8), 8)

\* DosDateTimeToFileTime: steps of two seconds since 1980, no date 0.
DosStep == 2 * TicksPerSec
DosText(number) ==
  IF number < Values(2) THEN NA ELSE StampText(DosEpoch + number * DosStep)
DosBytes(text) ==
  LET number == (Ticks(text) - DosEpoch) \div DosStep
  IN  IF number \in Values(2)..Values(4) - 1 THEN BytesOf(number, 4) ELSE <<>>

\* The weekday is in the highest bits of a UDTTM, 0 is no month and no day;
\* a text has no weekday.
Weekday == Values(4) \div 8
DttmText(number) ==
  IF number % Weekday = 0 \/ number \div Weekday = 7 THEN NA ELSE <<number % Weekday>>
DttmBytes(text) == BytesOf(text[1] % Weekday, 4)

\* The words of a SYSTEMTIME: year, month, weekday, day, hour, minute, second,
\* millisecond.  SystemTimeToString shows all but the weekday.
SystemWords(bytes, bigEndian) == [i \in 1..8 |-> NumberAt(bytes, 2 * i - 1, 2, bigEndian)]
SystemText(bytes, bigEndian) ==
  LET w == SystemWords(bytes, bigEndian)
  IN  IF w[1] <= 9999 /\ w[2] \in 1..12 /\ w[4] \in 1..31 /\ w[5] <= 23
           /\ w[6] <= 59 /\ w[7] <= 59 /\ w[8] <= 999
      THEN <<w[1], w[2], w[4], w[5], w[6], w[7], w[8]>>
      ELSE NA
SystemBytes(text, bigEndian) ==
  LET words == <<text[1], text[2], 0>> \o SubSeq(text, 3, 7)
  IN  FlattenSeq([i \in 1..8 |-> Ordered(BytesOf(words[i], 2), bigEndian)])

-----------------------------------------------------------------------------
(* GUIDs: three numbers and eight bytes; a version 1 holds a time          *)

GuidText(bytes, bigEndian) ==
  <<NumberAt(bytes, 1, 4, bigEndian), NumberAt(bytes, 5, 2, bigEndian), NumberAt(bytes, 7, 2, bigEndian)>>
    \o SubSeq(bytes, 9, 16)
GuidBytes(guid, bigEndian) ==
  Ordered(BytesOf(guid[1], 4), bigEndian) \o Ordered(BytesOf(guid[2], 2), bigEndian)
    \o Ordered(BytesOf(guid[3], 2), bigEndian) \o SubSeq(guid, 4, 11)

Version == Values(2) \div HalfValues   \* 0x1000: the version is the highest half
IsVersion1(guid) == guid[3] \div Version = 1

\* ShowValueGUIDTIME.
GuidTimeText(guid) ==
  LET time == guid[1] + guid[2] * Values(4) + (guid[3] % Version) * Values(6)
  IN  IF IsVersion1(guid) THEN StampText((time - GuidOffset) % Values(8)) ELSE NA

\* SetDataGUIDTIME: the time within the GUID that is there.
GuidTimeBytes(text, guid, bigEndian) ==
  LET time == Ticks(text) + GuidOffset
  IN  IF ~IsVersion1(guid) THEN <<>>
      ELSE GuidBytes(<<time % Values(4), (time \div Values(4)) % Values(2),
                       Version + ((time \div Values(6)) % Version)>> \o SubSeq(guid, 4, 11),
                     bigEndian)

-----------------------------------------------------------------------------
(* The rows.  The row "BINARY" takes its size from the row selected last.  *)

Numbers == {"UINT8", "UINT16", "UINT32", "UINT64"}
Rows == Numbers \cup {"BINARY", "TIME32T", "TIME64T", "FILETIME", "JAVATIME", "MSDOSTIME",
                      "MSDTTMTIME", "SYSTEMTIME", "GUID", "GUIDTIME"}

\* LISTDATA::eSize.
RowSize ==
  [UINT8 |-> 1, UINT16 |-> 2, UINT32 |-> 4, TIME32T |-> 4, MSDTTMTIME |-> 4, UINT64 |-> 8,
   TIME64T |-> 8, FILETIME |-> 8, JAVATIME |-> 8, MSDOSTIME |-> 8, SYSTEMTIME |-> 16,
   GUID |-> 16, GUIDTIME |-> 16]

\* The text of a row for the bytes there, as many as the row's size.
ShowValue(row, bytes, bigEndian) ==
  LET number == Number(Ordered(bytes, bigEndian))
      dword  == NumberAt(bytes, 1, 4, bigEndian)
  IN  CASE row = "TIME32T" -> SecondsText(number, 4)
        [] row = "TIME64T" -> SecondsText(number, 8)
        [] row = "FILETIME" -> StampText(number)
        [] row = "JAVATIME" -> JavaText(number)
        [] row = "MSDOSTIME" -> DosText(dword)
        [] row = "MSDTTMTIME" -> DttmText(dword)
        [] row = "SYSTEMTIME" -> SystemText(bytes, bigEndian)
        [] row = "GUID" -> GuidText(bytes, bigEndian)
        [] row = "GUIDTIME" -> GuidTimeText(GuidText(bytes, bigEndian))
        [] OTHER -> <<number>>

\* Mutant: SetTData does not swap.
EnteredUnswapped(row, text, bytes, bigEndian) ==
  IF row \in Numbers THEN BytesOf(text[1], RowSize[row]) ELSE <<>>

\* The bytes a row's SetData* writes for a text, <<>> if it is refused.  The
\* two MS times are written as they are.
SetValue(row, text, bytes, bigEndian) ==
  CASE row = "TIME32T" -> Ordered(SecondsBytes(text, 4), bigEndian)
    [] row = "TIME64T" -> Ordered(SecondsBytes(text, 8), bigEndian)
    [] row = "FILETIME" -> Ordered(BytesOf(Ticks(text), 8), bigEndian)
    [] row = "JAVATIME" -> Ordered(JavaBytes(text), bigEndian)
    [] row = "MSDOSTIME" -> DosBytes(text)
    [] row = "MSDTTMTIME" -> DttmBytes(text)
    [] row = "SYSTEMTIME" -> SystemBytes(text, bigEndian)
    [] row = "GUID" -> GuidBytes(text, bigEndian)
    [] row = "GUIDTIME" -> GuidTimeBytes(text, GuidText(bytes, bigEndian), bigEndian)
    [] OTHER -> Ordered(BytesOf(text[1], RowSize[row]), bigEndian)

=============================================================================
