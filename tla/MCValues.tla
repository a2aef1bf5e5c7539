------------------------------ MODULE MCValues ------------------------------
(* A 2 x 2 and a 2 x 3 dataset; the application's memory is 3 x 5 or a       *)
(* dataset's own size.  At the REST server, types of every class.            *)
EXTENDS ValueTransfer

Fix(size, order, signed) == [class |-> "integer", size |-> size, order |-> order, signed |-> signed]
Flt(size, order) == [class |-> "float", size |-> size, order |-> order]
Str(length, cset, pad) == [class |-> "string", length |-> length, cset |-> cset, pad |-> pad]
Enum(base, values) == [class |-> "enum", base |-> base,
                       members |-> [k \in DOMAIN values |-> [name |-> <<"e", k>>, value |-> values[k]]]]
Arr(base, dims) == [class |-> "array", base |-> base, dims |-> dims]
F(name, offset, type) == [name |-> name, offset |-> offset, type |-> type]
Cmp(size, fields) == [class |-> "compound", size |-> size, fields |-> fields]

I8   == Fix(1, "LE", TRUE)
I16  == Fix(2, "LE", TRUE)
I16BE == Fix(2, "BE", TRUE)
I32  == Fix(4, "LE", TRUE)
F64  == Flt(8, "LE")
Tight == Cmp(3, <<F("a", 0, I8), F("b", 1, I16)>>)
Gap   == Cmp(4, <<F("a", 0, I8), F("b", 2, I16)>>)
Inner(t) == Cmp(1 + Size(t), <<F("a", 0, I8), F("c", 1, t)>>)

DocTypes == {
    I8, I16, I16BE, I32, Fix(8, "BE", FALSE), Fix(1, "LE", FALSE), Fix(4, "LE", FALSE),
    Fix(10, "LE", TRUE), Fix(16, "LE", TRUE), Fix(12, "LE", TRUE),
    F64, Flt(4, "BE"), Flt(2, "LE"),
    Str(5, "ASCII", "NULLPAD"), Str(Variable, "UTF8", "NULLTERM"), Str(4, "ASCII", "SPACEPAD"),
    Enum(Fix(1, "LE", FALSE), <<0, 1>>), Enum(I8, <<-1, 1>>), Enum(Fix(4, "BE", TRUE), <<1, 2>>),
    Enum(Fix(8, "LE", TRUE), <<-3, 100>>), Enum(Fix(8, "LE", FALSE), <<1, 200>>),
    Enum(I16, <<0, 1>>),
    Arr(I16, <<2, 2>>), Arr(Gap, <<2>>), Arr(Tight, <<2>>), Arr(Enum(I8, <<-1, 1>>), <<2>>),
    Tight, Gap, Cmp(4, <<F("a", 0, I8), F("b", 1, I16)>>), Cmp(1, <<F("a", 0, I8)>>),
    Cmp(3, <<F("b", 0, I16), F("a", 2, I8)>>),
    Inner(Gap), Inner(Tight), Inner(Arr(Gap, <<2>>)), Inner(Arr(Tight, <<2>>)),
    Cmp(2, <<F("type", 0, I16)>>), Cmp(3, <<F("a", 0, I8), F("x", 1, Flt(2, "LE"))>>),
    [class |-> "reference", to |-> "object"], [class |-> "opaque", size |-> 3],
    Cmp(4, <<F("a", 0, I8), F("o", 1, [class |-> "opaque", size |-> 3])>>) }

MCNewTypes == [rest |-> <<DocTypes, {I16}>>, plugin |-> <<{I16, I16BE, F64}, {I16, I16BE}>>]

MCShape == <<<<2, 2>>, <<2, 3>>>>
None == Refused
MCServers == {[kind |-> "rest", files |-> <<None, None>>],
              [kind |-> "plugin", files |-> <<I16, I32>>],
              [kind |-> "plugin", files |-> <<I16BE, None>>],
              [kind |-> "plugin", files |-> <<None, I8>>],
              [kind |-> "plugin", files |-> <<Fix(1, "LE", FALSE), I16>>]}

R(start, stride, count, block) == [start |-> start, stride |-> stride, count |-> count, block |-> block]
Rect(r, c, rows, cols) == Slab(<<R(r, 1, rows, 1), R(c, 1, cols, 1)>>)

E(d, mtype, mem, file) == [dset |-> d, mtype |-> mtype, mem |-> mem, file |-> file]
Mem(sel) == Given(<<3, 5>>, sel)
File(d, sel) == Given(MCShape[d], sel)

\* Memory selections of four elements: rows, blocks, steps, points.
FourCells == {Rect(0, 0, 1, 4), Rect(1, 1, 1, 4), Rect(2, 1, 1, 4), Rect(1, 2, 2, 2),
              Slab(<<R(0, 2, 2, 1), R(1, 3, 2, 1)>>), Points(<<7, 0, 14, 3>>)}

MCWriteCalls ==
    {<<E(1, t, AllSpace, AllSpace)>> : t \in {I16, I32}}
    \cup {<<E(1, t, Mem(s), AllSpace)>> : t \in {I16, F64}, s \in FourCells}
    \cup {<<E(1, I16, Mem(Rect(0, 0, 1, 3)), AllSpace)>>,               \* one too few
          <<E(1, I16, AllSpace, File(1, Rect(0, 0, 1, 2)))>>,
          <<E(1, I16, Mem(Rect(1, 0, 1, 4)), File(1, Everything))>>,
          <<E(1, I16, AllSpace, File(1, Points(<<3>>)))>>,              \* a single point
          <<E(2, I32, AllSpace, File(2, Rect(0, 1, 2, 2)))>>,
          <<E(1, I16, Mem(Rect(0, 0, 1, 2)), File(1, Points(<<3, 0>>)))>>,
          <<E(1, I16, Mem(Rect(0, 0, 1, 2)), File(1, Points(<<3, 0>>))),
            E(2, I32, Mem(Rect(1, 1, 2, 3)), AllSpace)>>,
          <<E(1, I16, AllSpace, AllSpace), E(2, I32, AllSpace, AllSpace)>>,
          <<E(2, I32, Mem(Rect(1, 1, 2, 3)), AllSpace),
            E(1, I16, Mem(Rect(0, 0, 1, 3)), AllSpace)>>}

MCReadCalls ==
    {<<E(1, t, Mem(s), File(1, Rect(0, 0, 2, 2)))>> : t \in {I16, I32}, s \in FourCells}
    \cup {<<E(2, t, AllSpace, File(2, Rect(0, 1, 2, 2)))>> : t \in {I8, I32}}
    \cup {<<E(1, I16, AllSpace, AllSpace)>>,
          <<E(1, I16, AllSpace, File(1, Everything))>>,
          <<E(2, I32, Mem(Rect(0, 0, 1, 4)), File(2, Slab(<<R(0, 1, 2, 1), R(0, 2, 2, 1)>>)))>>,
          <<E(2, I32, Mem(Rect(0, 0, 1, 4)), File(2, Slab(<<R(0, 1, 1, 2), R(1, 1, 1, 2)>>)))>>,
          <<E(1, I16, AllSpace, File(1, Rect(0, 0, 1, 2))),
            E(1, I16, AllSpace, File(1, Rect(1, 0, 1, 2)))>>,
          <<E(1, I16, AllSpace, File(1, Rect(0, 0, 1, 2))),
            E(1, I16, Mem(Rect(2, 2, 1, 2)), File(1, Rect(1, 0, 1, 2)))>>,
          <<E(1, I16, AllSpace, File(1, Rect(0, 0, 2, 1))),
            E(2, I32, AllSpace, File(2, Rect(0, 0, 2, 2)))>>,
          <<E(1, I16, Mem(Rect(0, 0, 1, 2)), File(1, Rect(0, 0, 1, 2))),
            E(2, I32, Mem(Rect(0, 0, 1, 3)), File(2, Rect(0, 0, 1, 2)))>>}
=============================================================================
