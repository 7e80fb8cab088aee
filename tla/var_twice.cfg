CONSTANTS
    a = a b = b x = x y = y
    Name = {a, b}
    Data = {x, y}
    Absent = Absent
    None = None
    Size <- SizeOf
    Space = 4
    RuntimeSpace = 3
    MaxSize = 2
    Faults = {"twice"}
SPECIFICATION Spec
INVARIANT StoredIsRead
