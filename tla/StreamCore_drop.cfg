SPECIFICATION Spec
PROPERTY DropIsRetried
