------------------------------ MODULE Multipart ------------------------------
(***************************************************************************)
(* How a multipart body is taken apart (src/common/http/django-multipart.ts):*)
(* cut at each separator, one part after another, whatever is between two  *)
(* of them being a field, a file or nothing, until a part is refused or a  *)
(* limit is exceeded; and how a handler then finds its file.               *)
(*                                                                         *)
(* A body is a sequence of symbols: a line's end is CR and LF, a header    *)
(* line and the separator (two dashes and the boundary) are one symbol     *)
(* each, and so is any other byte; of bytes that are no text, one stands   *)
(* for any, and one symbol for the three of a byte order mark. Sizes are   *)
(* counted in symbols, but for the character that is put in place of a     *)
(* byte that is no text, which has three bytes. Names are of symbols too.  *)
(*                                                                         *)
(* Definitions whose comment starts with "Variant:" are not the code's:    *)
(* each is the definition after it with one plausible bug.                 *)
(***************************************************************************)
EXTENDS Integers, SequencesExt

CONSTANTS
    PartLists,     \* what clients send: sequences of parts
    DATA_UPLOAD_MAX_MEMORY_SIZE,
    DATA_UPLOAD_MAX_NUMBER_FIELDS,
    MAX_HEADER_SIZE

VARIABLES
    sent,          \* what the client sends: its parts, and the ends cut off
    body,          \* its body
    position,      \* how much of it has been read
    fields,        \* the fields, in order: <<name, value>>
    files,
    numBytesRead,
    numPostKeys,
    outcome

vars == <<sent, body, position, fields, files, numBytesRead, numPostKeys, outcome>>

CR == <<"cr">>
LF == <<"lf">>
SEP == <<"sep">>
DASHES == <<"--">>
CRLF == <<CR, LF>>
CRLFCRLF == CRLF \o CRLF

\* Bytes of a payload: four that base64 decodes, what they decode to, and one
\* that is not of its alphabet; a byte order mark, a byte that is no text and the
\* character put in its place.
X == <<"x">>
Decoded == <<"decoded">>
Z == <<"z">>
BOM == <<"bom">>
BAD == <<"bad">>
REPLACED == <<"replaced">>
SPACE == <<"space">>

\* A disposition without the parameter.
NoName == <<<<"no name">>>>
NoFile == ""

Disposition(name, filename) == <<"content-disposition", name, filename>>
Base64 == <<"content-transfer-encoding">>
Other == <<"x-other">>

-----------------------------------------------------------------------------
(* What clients send. *)

FileNameOf == [field |-> NoFile, file |-> "f", dots |-> ".."]

PartHeaders(part) ==
    (IF part.kind = "raw" THEN <<Other>> ELSE <<Disposition(part.name, FileNameOf[part.kind])>>)
    \o (IF part.base64 THEN <<Base64>> ELSE <<>>)
    \o (IF part.long THEN [i \in 1 .. MAX_HEADER_SIZE \div 3 |-> Other] ELSE <<>>)

EncodedPart(part) ==
    <<SEP>> \o FoldLeft(LAMBDA done, line : done \o CRLF \o <<line>>, <<>>, PartHeaders(part))
            \o CRLFCRLF \o part.payload \o CRLF

Encoded(parts) ==
    FoldLeft(LAMBDA done, part : done \o EncodedPart(part), <<>>, parts) \o <<SEP, DASHES>> \o CRLF

Init ==
    /\ sent = [parts |-> <<>>, cut |-> 0] /\ body = <<>> /\ position = 0 /\ fields = <<>>
    /\ files = <<>> /\ numBytesRead = 0 /\ numPostKeys = 0 /\ outcome = "none"

\* A request arrives: with all of its body or the beginning of it, or with a
\* boundary that is absent (the view sees no data, and no error), or empty or
\* not valid (a 400).
Arrive ==
    /\ outcome = "none"
    /\ \E parts \in PartLists, boundary \in {"good", "absent", "invalid"} :
       \E cut \in IF boundary = "good" THEN 0..Len(Encoded(parts)) ELSE {0} :
          /\ sent' = [parts |-> parts, cut |-> cut]
          /\ body' = SubSeq(Encoded(parts), 1, Len(Encoded(parts)) - cut)
          /\ outcome' = CASE boundary = "good" -> "parsing"
                          [] boundary = "absent" -> "empty"
                          [] boundary = "invalid" -> "400"
    /\ UNCHANGED <<position, fields, files, numBytesRead, numPostKeys>>

-----------------------------------------------------------------------------
(* splitOnBoundary: the next chunk, up to a separator or the end. *)

Rest == SubSeq(body, position + 1, Len(body))
Separators(chunk) == {i \in DOMAIN chunk : chunk[i] = SEP}
First(S) == CHOOSE i \in S : \A j \in S : i <= j

\* Variant: every line end before the separator is taken off.
BackedUpAll(chunk, end) ==
    First({i \in 0..end : \A j \in i + 1 .. end : chunk[j] \in {CR, LF}})

\* The line end before a separator belongs to it: one LF, one CR, no more. (An
\* empty chunk's last symbol is its first; there it is the separator itself.)
BackedUp(chunk, end) ==
    LET At(n) == chunk[IF n = 0 THEN 1 ELSE n]
        afterLF == IF At(end) = LF THEN end - 1 ELSE end
    IN  IF At(afterLF) = CR THEN afterLF - 1 ELSE afterLF

NextPart ==
    IF Separators(Rest) = {} THEN Rest
    ELSE SubSeq(Rest, 1, BackedUp(Rest, First(Separators(Rest)) - 1))

Advanced ==
    IF Separators(Rest) = {} THEN Len(body) ELSE position + First(Separators(Rest))

-----------------------------------------------------------------------------
(* parseBoundaryStream: a part's headers, which must end early in it. *)

FirstOf(s, n) == IF Len(s) > n THEN SubSeq(s, 1, n) ELSE s

RAW_PART == [type |-> "raw"]

HeaderEnds(chunk) == {i \in 0 .. Len(chunk) - 4 : SubSeq(chunk, i + 1, i + 4) = CRLFCRLF}

\* The lines of a header that are dispositions; one is read at the start of a
\* line only, and of several the last counts.
Dispositions(header) ==
    LET AtLineStart(i) == i = 1 \/ (i > 2 /\ SubSeq(header, i - 2, i - 1) = CRLF)
        starts == SelectSeq([i \in DOMAIN header |-> i], AtLineStart)
        lines == [n \in DOMAIN starts |-> header[starts[n]]]
    IN  SelectSeq(lines, LAMBDA line : line[1] = "content-disposition")

parseBoundaryStream(part) ==
    LET chunk == FirstOf(part, MAX_HEADER_SIZE) IN
    IF HeaderEnds(chunk) = {} THEN RAW_PART
    ELSE LET header == SubSeq(chunk, 1, First(HeaderEnds(chunk)))
             lines == Dispositions(header)
         IN  IF lines = <<>> THEN RAW_PART
             ELSE [type |-> IF Last(lines)[3] = NoFile THEN "field" ELSE "file",
                   name |-> Last(lines)[2], filename |-> Last(lines)[3],
                   base64 |-> Contains(header, Base64),
                   payload |-> SubSeq(part, First(HeaderEnds(chunk)) + 5, Len(part))]

\* White space is skipped; <<Z>> stands for what cannot be decoded.
decodeBase64Strict(value) ==
    IF ToSet(value) \cap {Z, BOM, BAD} # {} THEN <<Z>>
    ELSE LET digits == SelectSeq(value, LAMBDA b : b = X) IN [i \in DOMAIN digits |-> Decoded]

\* TextDecoder: a byte order mark in front is taken off, one of them, and what is
\* no text is replaced.
forceText(value) ==
    LET text == IF value # <<>> /\ Head(value) = BOM THEN Tail(value) ELSE value
    IN  [i \in DOMAIN text |-> IF text[i] = BAD THEN REPLACED ELSE text[i]]

stripAsciiWhitespace(value) ==
    LET solid == {i \in DOMAIN value : value[i] # SPACE} IN
    IF solid = {} THEN <<>> ELSE SubSeq(value, First(solid), Max(solid))

\* Of a file's name the last part of its path counts, and it may not be a directory's.
sanitizesToNothing(filename) == filename \in {".", "..", "a/.."}

-----------------------------------------------------------------------------
(* parseDjangoMultipart's loop *)

Ends(how) == outcome' = how /\ UNCHANGED <<fields, files, numBytesRead, numPostKeys>>

byteLength(text) == Len(text) + 2 * Len(SelectSeq(text, LAMBDA c : c = REPLACED))

\* A field's bytes, its name's, and two as if it were an urlencoded one.
FieldSize(raw, name) == numBytesRead + Len(raw) + byteLength(name) + 2

\* No more is read than the limit leaves; a field that cannot be decoded keeps
\* its bytes; either is then made text.
AddField(part) ==
    LET room == DATA_UPLOAD_MAX_MEMORY_SIZE - numBytesRead
        raw == FirstOf(part.payload, room)
        data == IF part.base64 /\ decodeBase64Strict(raw) # <<Z>> THEN decodeBase64Strict(raw) ELSE raw
        name == forceText(stripAsciiWhitespace(part.name))
    IN  IF \/ numPostKeys + 1 > DATA_UPLOAD_MAX_NUMBER_FIELDS
           \/ FieldSize(raw, name) > DATA_UPLOAD_MAX_MEMORY_SIZE
        THEN Ends("suspicious")
        ELSE /\ fields' = Append(fields, <<name, forceText(data)>>)
             /\ numPostKeys' = numPostKeys + 1
             /\ numBytesRead' = FieldSize(raw, name)
             /\ UNCHANGED <<files, outcome>>

LeavesOut == UNCHANGED <<fields, files, numBytesRead, numPostKeys, outcome>>

\* A file is not counted, and must decode, unless its name leaves it out.
AddFile(part) ==
    IF sanitizesToNothing(part.filename) THEN LeavesOut
    ELSE IF part.base64 /\ decodeBase64Strict(part.payload) = <<Z>> THEN Ends("400")
    ELSE /\ files' = Append(files, <<forceText(stripAsciiWhitespace(part.name)),
                                    IF part.base64 THEN decodeBase64Strict(part.payload)
                                    ELSE part.payload>>)
         /\ UNCHANGED <<fields, numBytesRead, numPostKeys, outcome>>

\* A part without a disposition, or without a name, is left out before any count.
ParsePart ==
    /\ outcome = "parsing" /\ position < Len(body) /\ position' = Advanced
    /\ LET part == parseBoundaryStream(NextPart) IN
       IF part.type = "raw" THEN LeavesOut
       ELSE IF part.name = NoName THEN LeavesOut
       ELSE CASE part.type = "field" -> AddField(part)
              [] part.type = "file"  -> AddFile(part)
    /\ UNCHANGED <<sent, body>>

EndOfBody ==
    /\ outcome = "parsing" /\ position = Len(body) /\ Ends("parsed")
    /\ UNCHANGED <<sent, body, position>>

\* readUploadedFile: the last file of the name, or a KeyError.
readUploadedFile(name) ==
    LET named == SelectSeq(files, LAMBDA file : file[1] = name) IN
    IF named = <<>> THEN <<"KeyError">> ELSE Last(named)[2]

\* A body is parsed to its end or refused; then the next one may come.
NextRequest ==
    /\ outcome \in {"parsed", "empty", "400", "suspicious"}
    /\ sent' = [parts |-> <<>>, cut |-> 0] /\ body' = <<>> /\ position' = 0 /\ fields' = <<>>
    /\ files' = <<>> /\ numBytesRead' = 0 /\ numPostKeys' = 0 /\ outcome' = "none"

Next == Arrive \/ ParsePart \/ EndOfBody \/ NextRequest
Spec == Init /\ [][Next]_vars

-----------------------------------------------------------------------------
(* Properties *)

Decoding(part) ==
    IF part.base64 /\ decodeBase64Strict(part.payload) # <<Z>> THEN decodeBase64Strict(part.payload)
    ELSE part.payload

\* What is to arrive of the fields, or of the files: all but the parts that are
\* left out without a word, which are those without a disposition, or with one
\* further in than MAX_HEADER_SIZE, those without a name, and the files whose own
\* name comes to nothing. A field is text, as Text makes it; a file is bytes.
SentOf(kind, Text(_)) ==
    LET Arrives(part) == part.kind = kind /\ ~part.long /\ part.name # NoName
        parts == SelectSeq(sent.parts, Arrives)
    IN  [i \in DOMAIN parts |-> <<forceText(stripAsciiWhitespace(parts[i].name)),
                                  Text(Decoding(parts[i]))>>]
Fields == SentOf("field", forceText)
Files == SentOf("file", LAMBDA bytes : bytes)

CutShort(got, whole) ==
    /\ Len(got) <= Len(whole)
    /\ \A i \in 1 .. Len(got) - 1 : got[i] = whole[i]

\* Of a body that is accepted, every part has arrived but those that are left out
\* without a word: the files to the byte and the fields as the text that their
\* bytes decode to, in their order, whatever line ends their values begin or end
\* with, however near the limits they come; what does not fit is refused and never
\* cut. A handler finds the last file of a name. And wherever a body breaks off,
\* what had arrived whole is kept, in its order, and nothing is made up but a
\* shorter last value. (splitOnBoundary, parseDjangoMultipart, lastUploadedFile.)
ArrivesWholeOrNotAtAll ==
    outcome = "parsed" =>
        /\ CutShort(fields, Fields) /\ CutShort(files, Files)
        /\ sent.cut = 0 =>
              /\ fields = Fields /\ files = Files
              /\ \A i \in DOMAIN files :
                    (\A j \in i + 1 .. Len(files) : files[j][1] # files[i][1])
                       => readUploadedFile(files[i][1]) = files[i][2]
=============================================================================
